---- MODULE Spec2Model ----
(***************************************************************************)
(* Export coordinator of the Google Docs/Sheets -> Outline extension:      *)
(* background message listener, configuration cache, collection resolver,  *)
(* header injector and the OutlineAPI client with its retry loop.          *)
(*                                                                         *)
(* Strings are sequences of string pieces (the literals of the source and  *)
(* the values that are interpolated into them).  Every await of the source *)
(* is a point where a request waits; one action models the callback that   *)
(* resumes it and runs the code up to the next await.                      *)
(***************************************************************************)
EXTENDS Integers, Sequences, FiniteSets, TLC

VARIABLES
    req,            \* per message: position in the async code, locals, history
    cachedConfig,   \* background.js module variable cachedConfig
    syncStore,      \* chrome.storage.sync (the four configuration keys)
    changePending,  \* a storage.onChanged notification not yet delivered
    localStore,     \* chrome.storage.local: storage key -> collection id
    nextColl,       \* remote: number of collections created so far
    docs,           \* remote: documents, index -> [title, text]
    nextDoc,        \* remote: number of documents created so far
    received,       \* messages received so far
    changes,        \* configuration changes made so far
    fresh,          \* no message has been received since the last notification
    page            \* the content script of one page: its button and its clicks

vars == <<req, cachedConfig, syncStore, changePending, localStore, nextColl, docs, nextDoc,
          received, changes, fresh, page>>

----------------------------------------------------------------------------
(* Bounds of the model *)

\* messages that can be in progress at once
MaxReq == 2
\* messages received in one behaviour, configuration changes in one behaviour
MaxMsgs == 2
MaxChanges == 1
\* largest retry budget tried on a direct _request call
MaxBudget == 3
\* remote collections / documents that can be created in one behaviour
MaxColl == 2
MaxDoc == 2
\* clicks on the button of one page in one behaviour
MaxClicks == 3

----------------------------------------------------------------------------
(* Program constants *)

MAX_RETRIES == 3
\* getOrCreateCollection: the base and the ceiling of its backoff, in ms
RESOLVER_BASE == 1000
BACKOFF_CEILING == 10000
MIN_TOKEN_LEN == 10
MAX_TITLE_LEN == 255

----------------------------------------------------------------------------
(* Strings *)

NoStr == <<>>

Rep(c, n) == [i \in 1..n |-> c]

IsSpace(c) == c = " "

RECURSIVE TrimLeft(_)
TrimLeft(s) == IF s # <<>> /\ IsSpace(Head(s)) THEN TrimLeft(Tail(s)) ELSE s

RECURSIVE TrimRight(_)
TrimRight(s) ==
    IF s # <<>> /\ IsSpace(s[Len(s)]) THEN TrimRight(SubSeq(s, 1, Len(s) - 1)) ELSE s

\* String.prototype.trim
Trim(s) == TrimLeft(TrimRight(s))

\* the phrases a piece of text contains, of those the program searches for
Phrases(piece) ==
    CASE piece = "Authentication error (" -> {"Authentication error", "Authentication"}
      [] piece = "Resource not found (404): " -> {"Resource not found", "not found"}
      [] piece = " is deleted." -> {"deleted"}
      [] piece = " is archived." -> {"archived"}
      [] piece = "Network error: " -> {}
      [] piece = "network unreachable" -> {"network"}
      [] piece = "<body: not found>" -> {"not found"}
      [] OTHER -> {}

\* String.prototype.includes
Includes(msg, needle) == \E i \in 1..Len(msg) : needle \in Phrases(msg[i])

\* number of characters of a piece of text
PieceLen(piece) ==
    CASE piece = "k9chars" -> 9
      [] piece = "k10chars" -> 10
      [] piece = "K10chars" -> 10
      [] piece = "t255" -> 255
      [] piece = "t256" -> 256
      [] OTHER -> 1

RECURSIVE StrLen(_)
\* String.prototype.length
StrLen(s) == IF s = <<>> THEN 0 ELSE PieceLen(Head(s)) + StrLen(Tail(s))

StatusText(status) ==
    CASE status = 200 -> "200"
      [] status = 400 -> "400"
      [] status = 401 -> "401"
      [] status = 403 -> "403"
      [] status = 404 -> "404"
      [] status = 429 -> "429"
      [] OTHER -> "500"

----------------------------------------------------------------------------
(* Values exchanged with the remote service *)

Err(name, msg) == [name |-> name, msg |-> msg]
NoErr == Err("", NoStr)

\* a parsed response body: {data: {id, deletedAt, archivedAt, title, text}}
Json(hasData, id, deleted, archived, title, text) ==
    [hasData |-> hasData, id |-> id, deleted |-> deleted, archived |-> archived,
     title |-> title, text |-> text]
NoJson == Json(FALSE, "", FALSE, FALSE, NoStr, NoStr)

Statuses == {200, 400, 401, 403, 404, 429, 500}
Bodies == {"<body>", "<body: not found>"}
NetMessages == {"Failed to fetch", "network unreachable"}
\* shapes of a 2xx body: complete, unparsable, without data, data without id,
\* a record marked deleted, a record marked archived
Shapes == {"full", "badjson", "nodata", "noid", "deleted", "archived"}

\* What one fetch can do: answer with a status (a body text for an error, a body
\* shape for a 2xx), fail in the network, or be aborted.  done: the remote
\* carried the operation out (always for a 2xx, never for a 4xx).
FetchOutcomes ==
    [kind : {"resp"}, status : {200}, body : {"<json>"}, shape : Shapes, done : {TRUE}]
    \cup [kind : {"resp"}, status : {400, 401, 403, 404, 429}, body : Bodies,
          shape : {"none"}, done : {FALSE}]
    \cup [kind : {"resp"}, status : {500}, body : Bodies, shape : {"none"}, done : BOOLEAN]
    \cup [kind : {"neterr"}, status : {0}, body : NetMessages, shape : {"none"}, done : BOOLEAN]
    \cup [kind : {"abort"}, status : {0}, body : {"<aborted>"}, shape : {"none"}, done : BOOLEAN]

\* how a fetch ended, as _request tells the cases apart: a parsed 2xx body, a
\* 429, a failure of the network, an abort, anything else
OutcomeClass(o) ==
    CASE o.kind = "neterr" -> "net"
      [] o.kind = "abort" -> "abort"
      [] o.status = 429 -> "rate"
      [] o.status = 200 /\ o.shape # "badjson" -> "ok"
      [] OTHER -> "other"

----------------------------------------------------------------------------
(* OutlineAPI._request: one iteration of the retry loop *)

Continue == [end |-> "continue", err |-> NoErr, json |-> NoJson]
Return(json) == [end |-> "return", err |-> NoErr, json |-> json]
Throw(err) == [end |-> "throw", err |-> err, json |-> NoJson]

\* the 4xx branch of the try block
ClientError(attempts, maxAttempts, o) ==
    IF o.status = 401 \/ o.status = 403
    THEN Throw(Err("Error", <<"Authentication error (", StatusText(o.status), "): ", o.body>>))
    ELSE IF o.status = 404
    THEN Throw(Err("Error", <<"Resource not found (404): ", o.body>>))
    ELSE IF o.status = 429 /\ attempts < maxAttempts
    THEN Continue
    ELSE Throw(Err("Error", <<"API error (", StatusText(o.status), "): ", o.body>>))

\* the try block: await fetch, check response.ok, parse the body
TryBlock(attempts, maxAttempts, o, json) ==
    IF o.kind = "abort" THEN Throw(Err("AbortError", <<o.body>>))
    ELSE IF o.kind = "neterr" THEN Throw(Err("TypeError", <<o.body>>))
    ELSE IF o.status # 200
    THEN IF o.status >= 400 /\ o.status < 500
         THEN ClientError(attempts, maxAttempts, o)
         ELSE IF attempts < maxAttempts
         THEN Continue
         ELSE Throw(Err("Error", <<"Outline API error: ", StatusText(o.status), " - ", o.body>>))
    ELSE IF o.shape = "badjson"
    THEN Throw(Err("Error", <<"Invalid JSON response: ", "Unexpected token">>))
    ELSE Return(json)

\* a catch block without the branch for AbortError
CatchBlockNoAbortBranch(attempts, maxAttempts, error) ==
    IF error.name = "TypeError" /\ Includes(error.msg, "network")
    THEN IF attempts < maxAttempts
         THEN Continue
         ELSE Throw(Err("Error", <<"Network error: ">> \o error.msg
                                  \o <<". Please check your internet connection.">>))
    ELSE IF attempts < maxAttempts
            /\ ~Includes(error.msg, "Authentication error")
            /\ ~Includes(error.msg, "Resource not found")
    THEN Continue
    ELSE Throw(error)

\* a catch block that goes round the loop again whatever was thrown
CatchBlockAlwaysContinues(attempts, maxAttempts, error) == Continue

\* a catch block that passes on whatever was thrown
CatchBlockRethrows(attempts, maxAttempts, error) == Throw(error)

\* a catch block that retries whatever was thrown
CatchBlockRetriesAll(attempts, maxAttempts, error) ==
    IF attempts < maxAttempts THEN Continue ELSE Throw(error)

\* the catch block around the try block
CatchBlock(attempts, maxAttempts, error) ==
    IF error.name = "AbortError"
    THEN Throw(Err("Error", <<"Request cancelled">>))
    ELSE IF error.name = "TypeError" /\ Includes(error.msg, "network")
    THEN IF attempts < maxAttempts
         THEN Continue
         ELSE Throw(Err("Error", <<"Network error: ">> \o error.msg
                                  \o <<". Please check your internet connection.">>))
    ELSE IF attempts < maxAttempts
            /\ ~Includes(error.msg, "Authentication error")
            /\ ~Includes(error.msg, "Resource not found")
    THEN Continue
    ELSE Throw(error)

\* a budget that counts the first attempt
MaxAttemptsCountsFirst(retry) == retry

\* maxAttempts = retry + 1
MaxAttempts(retry) == retry + 1

\* One pass through the body of the while loop, entered with `attempts` fetches
\* made so far; the result carries the incremented counter.
RequestStep(attempts, retry, o, json) ==
    LET a == attempts + 1
        t == TryBlock(a, MaxAttempts(retry), o, json)
        r == IF t.end = "throw" THEN CatchBlock(a, MaxAttempts(retry), t.err) ELSE t
    IN  [end |-> r.end, err |-> r.err, json |-> r.json, attempts |-> a]

\* the loop condition of while (attempts < maxAttempts)
LoopEnters(attempts, retry) == attempts < MaxAttempts(retry)

----------------------------------------------------------------------------
(* OutlineAPI methods: the _request options they pass and what they make of
   its result *)

\* the retry option each method passes to _request
Budget(op) == IF op = "createCollection" THEN 3 ELSE 2

\* the text each method puts before the message of a failure
Prefix(op) ==
    CASE op = "createCollection" -> "Failed to create collection: "
      [] op = "createDocument" -> "Failed to create document: "
      [] op = "importDocument" -> "Failed to import document: "
      [] op = "updateDocument" -> "Failed to update document: "
      [] op = "getDocument" -> "Failed to get document: "
      [] OTHER -> "Failed to get collection: "

Wrap(op, err) == Err("Error", <<Prefix(op)>> \o err.msg)

Ok(json) == [ok |-> TRUE, json |-> json, err |-> NoErr]
Fail(err) == [ok |-> FALSE, json |-> NoJson, err |-> err]

\* reading a property of an undefined value
UndefinedRead == Err("TypeError", <<"Cannot read properties of undefined">>)

\* getCollection: a record without data, deleted or archived is a failure
GetCollectionResult(id, r) ==
    IF r.end = "throw" THEN Fail(Wrap("getCollection", r.err))
    ELSE IF r.end # "return" THEN Fail(Wrap("getCollection", UndefinedRead))
    ELSE IF ~r.json.hasData
    THEN Fail(Wrap("getCollection", Err("Error", <<"Invalid collection response for ", id>>)))
    ELSE IF r.json.deleted
    THEN Fail(Wrap("getCollection", Err("Error", <<"Collection ", id, " is deleted.">>)))
    ELSE IF r.json.archived
    THEN Fail(Wrap("getCollection", Err("Error", <<"Collection ", id, " is archived.">>)))
    ELSE Ok(r.json)

\* createCollection returns result.data.id
CreateCollectionResult(r) ==
    IF r.end = "throw" THEN Fail(Wrap("createCollection", r.err))
    ELSE IF r.end # "return" \/ ~r.json.hasData
    THEN Fail(Wrap("createCollection", UndefinedRead))
    ELSE Ok(r.json)

\* the other methods return the parsed body as it is
PlainResult(op, r) ==
    IF r.end = "throw" THEN Fail(Wrap(op, r.err))
    ELSE IF r.end # "return" THEN Ok(NoJson)
    ELSE Ok(r.json)

ApiResult(op, arg, r) ==
    CASE op = "getCollection" -> GetCollectionResult(arg.id, r)
      [] op = "createCollection" -> CreateCollectionResult(r)
      [] OTHER -> PlainResult(op, r)

----------------------------------------------------------------------------
(* Messages, responses, calls *)

Reqs == 1..MaxReq

Actions == {"saveGoogleDoc", "importGoogleSheet", "appendHeader"}

Msg(action, title, content, fileContent, header, position, docId) ==
    [action |-> action, title |-> title, content |-> content, fileContent |-> fileContent,
     headerMarkdown |-> header, headerPosition |-> position, docId |-> docId]
NoMsg == Msg("", NoStr, NoStr, NoStr, NoStr, "", "")

\* a response object; an absent field is "" / <<>> / FALSE
Resp(success, error, url, documentId, timestamp, result) ==
    [success |-> success, error |-> error, url |-> url, documentId |-> documentId,
     timestamp |-> timestamp, result |-> result]

\* the arguments of one API call
Call(op, id, coll, name, title, text, append) ==
    [op |-> op, id |-> id, coll |-> coll, name |-> name, title |-> title, text |-> text,
     append |-> append]
NoCall == Call("", "", "", NoStr, NoStr, NoStr, FALSE)

Config(set, url, token, docsName, sheetsName) ==
    [set |-> set, outlineUrl |-> url, apiToken |-> token,
     googleDocsCollectionName |-> docsName, googleSheetsCollectionName |-> sheetsName]
\* cachedConfig = null
NoConfig == Config(FALSE, NoStr, NoStr, NoStr, NoStr)

Keys == {"collectionId", "collectionId_sheet"}

\* ids the remote service hands out
CollIds == <<"c1", "c2", "c3", "c4", "c5", "c6">>
DocIds == <<"d1", "d2", "d3", "d4", "d5", "d6">>
\* a collection id left in local storage by an earlier run, a document that
\* exists from the start
OldColl == "c0"
OldDoc == "d0"

\* What an invocation of getOrCreateCollection has done so far: calls of
\* api.getCollection and api.createCollection, ids passed to setLocalStorage.
\* stored: the id getLocalStorage answered with; verify: how the last
\* getCollection call ended; fails: failed creation attempts; retried: the
\* getCollection calls whose failure was one that is retried.
NoInv ==
    [stored |-> "", gets |-> 0, creates |-> 0, writes |-> <<>>, fails |-> 0,
     verify |-> [ok |-> FALSE, status |-> 0, shape |-> ""], retried |-> 0]

\* A backoff sleep: the branch that sleeps ("rate", "server", "network",
\* "other" in _request, "verify", "create" in getOrCreateCollection), the
\* retryDelay option, the value of Math.random() in thousandths, and the
\* duration in ms once computed.
Sleep(branch, retryDelay, random, ms) ==
    [branch |-> branch, retryDelay |-> retryDelay, random |-> random, ms |-> ms]
NoSleep == Sleep("", 0, 0, 0)

\* the arguments of an appendHeaderToDocument call, and where in log it starts
NoHdr == [docId |-> "", header |-> NoStr, position |-> "", at |-> 0]

\* A message not yet received.  Besides the locals of the code: resp, the
\* responses sent; log, the API calls of the handler and the header helper, and
\* results, how each ended; nFetch, the fetches of the API call in progress;
\* statuses, the statuses of a direct _request call's fetches; touched, the
\* storage accesses; inv, the history of the getOrCreateCollection invocation in
\* progress; remoteOk / storageOk, every fetch so far was answered 2xx with a
\* complete body / every storage call so far succeeded; fresh, the message is
\* the first received after a change notification; epoch, the configuration
\* changes made before the message was received.  hung: the fetch in progress
\* never settles by itself; aborted: the timer of the handler's controller has
\* fired (controller.signal.aborted); failure: the error of the call of the
\* handler or the header helper that failed; gotDocs: every 2xx answer to a
\* getDocument so far carried the document; classes: how each fetch of a
\* direct _request call ended; sleep: the backoff sleep in progress.
\* the headers of a request: a value of NoStr is a header that is not there
Headers(authorization, contentType) ==
    [Authorization |-> authorization, ContentType |-> contentType]
NoHeaders == Headers(NoStr, NoStr)

\* the options _request is called with: restOptions.headers || {} and the kind
\* of restOptions.body ("" no body, "json" a string, "form" a FormData)
Options(headers, body) == [headers |-> headers, body |-> body]
NoOptions == Options(NoHeaders, "")

\* what the methods of OutlineAPI pass: a body and no headers
MethodOptions(op) ==
    Options(NoHeaders, IF op = "importDocument" THEN "form" ELSE "json")

\* a _request that gives every body the JSON content type
RequestHeadersAlwaysJson(options, apiToken) ==
    [Authorization |-> IF options.headers.Authorization = NoStr
                       THEN <<"Bearer ">> \o apiToken
                       ELSE options.headers.Authorization,
     ContentType |-> IF options.body # "" /\ options.headers.ContentType = NoStr
                     THEN <<"application/json">>
                     ELSE options.headers.ContentType]

\* the headers of fetchOptions
RequestHeaders(options, apiToken) ==
    [Authorization |-> IF options.headers.Authorization = NoStr
                       THEN <<"Bearer ">> \o apiToken
                       ELSE options.headers.Authorization,
     ContentType |-> IF /\ options.body # ""
                        /\ options.body # "form"
                        /\ options.headers.ContentType = NoStr
                     THEN <<"application/json">>
                     ELSE options.headers.ContentType]

Idle ==
    [pc |-> "idle", msg |-> NoMsg, cfg |-> NoConfig, stage |-> "", call |-> NoCall,
     retry |-> 0, attempts |-> 0, key |-> "", name |-> NoStr, collectionId |-> "",
     isVerified |-> FALSE, retryCount |-> 0, docId |-> "", docUrl |-> NoStr,
     fetched |-> NoJson, ioOk |-> TRUE, ioVal |-> NoConfig, ioId |-> "",
     hdr |-> NoHdr, resp |-> <<>>, log |-> <<>>, results |-> <<>>, nFetch |-> 0,
     statuses |-> {}, touched |-> {}, inv |-> NoInv, remoteOk |-> TRUE, storageOk |-> TRUE,
     fresh |-> FALSE, epoch |-> 0, hung |-> FALSE, aborted |-> FALSE, failure |-> NoErr,
     gotDocs |-> TRUE, classes |-> <<>>, sleep |-> NoSleep,
     options |-> NoOptions, headers |-> NoHeaders,
     last |-> [end |-> "", err |-> NoErr, json |-> NoJson, status |-> 0, body |-> ""]]

----------------------------------------------------------------------------
(* background.js: responses *)

Respond(q, resp) == [q EXCEPT !.resp = Append(@, resp)]

\* error?.message || "Unknown error occurred"
ErrorMessage(error) == IF error.msg # NoStr THEN error.msg ELSE <<"Unknown error occurred">>

\* a failure response that passes on the document obtained so far
RespondWithPartial(q, error) ==
    Respond(q, Resp(FALSE, ErrorMessage(error), q.docUrl, q.docId, TRUE, FALSE))

RespondWithError(q, error) ==
    Respond(q, Resp(FALSE, ErrorMessage(error), NoStr, "", TRUE, FALSE))

\* the message is settled
Done(q) == [q EXCEPT !.pc = "done"]

\* a function that was called directly returns / throws
Returned(q) == Done([q EXCEPT !.last = [@ EXCEPT !.end = "return", !.err = NoErr]])
Thrown(q, err) == Done([q EXCEPT !.last = [@ EXCEPT !.end = "throw", !.err = err]])

\* The two catch blocks around a handler: the one of the listener's callback
\* answers whatever escaped the handler; nothing is left for withOutlineConfig's.
Settle(q, escaped) ==
    IF escaped = NoErr THEN Done(q) ELSE Done(RespondWithError(q, escaped))

\* a catch block that responds and lets the error go on to the listener's
HandlerCatchRethrows(q, err) ==
    IF q.msg.action \in Actions THEN Settle(RespondWithError(q, err), err) ELSE Thrown(q, err)

\* the catch block of an action handler: respond, swallow
HandlerCatch(q, err) ==
    IF q.msg.action \in Actions THEN Settle(RespondWithError(q, err), NoErr) ELSE Thrown(q, err)

\* the sendResponse at the end of a handler's try block
Success(q) ==
    IF q.msg.action \notin Actions THEN Returned(q)
    ELSE IF q.msg.action = "appendHeader"
    THEN Settle(Respond(q, Resp(TRUE, NoStr, NoStr, "", TRUE, TRUE)), NoErr)
    ELSE Settle(Respond(q, Resp(TRUE, NoStr, q.docUrl, q.docId, TRUE, FALSE)), NoErr)

\* api.<op>(...) is called: _request starts with no attempt made
StartCall(q, stage, call) ==
    [q EXCEPT !.pc = "fetch", !.stage = stage, !.call = call, !.retry = Budget(call.op),
              !.attempts = 0, !.nFetch = 0,
              !.options = MethodOptions(call.op),
              !.headers = RequestHeaders(MethodOptions(call.op), q.cfg.apiToken),
              !.log = IF stage \in {"verify", "create"} THEN @ ELSE Append(@, call),
              !.inv = [@ EXCEPT !.gets = IF stage = "verify" THEN @ + 1 ELSE @,
                                !.creates = IF stage = "create" THEN @ + 1 ELSE @]]

----------------------------------------------------------------------------
(* headerUpdateHelper.js *)

\* an update that puts the header after the body it fetched
AppendHeaderCallBodyFirst(docId, headerMarkdown, position, docInfo) ==
    LET currentText == IF docInfo.hasData THEN docInfo.text ELSE NoStr
        currentTitle == IF docInfo.hasData THEN docInfo.title ELSE NoStr
    IN  Call("updateDocument", docId, "", NoStr, currentTitle,
             currentText \o <<"\n\n">> \o headerMarkdown, FALSE)

\* the update appendHeaderToDocument issues once it has the document
AppendHeaderCall(docId, headerMarkdown, position, docInfo) ==
    LET currentText == IF docInfo.hasData THEN docInfo.text ELSE NoStr
        currentTitle == IF docInfo.hasData THEN docInfo.title ELSE NoStr
    IN  IF position = "top"
        THEN Call("updateDocument", docId, "", NoStr, currentTitle,
                  headerMarkdown \o <<"\n\n">> \o currentText, FALSE)
        ELSE Call("updateDocument", docId, "", NoStr, currentTitle, headerMarkdown, TRUE)

\* request.headerPosition || 'top'
HeaderPosition(msg) == IF msg.headerPosition # "" THEN msg.headerPosition ELSE "top"

\* appendHeaderToDocument(outlineUrl, apiToken, docId, headerMarkdown, position)
\* starts with api.getDocument(docId)
StartHeader(q, docId, headerMarkdown, position) ==
    StartCall([q EXCEPT !.hdr = [docId |-> docId, header |-> headerMarkdown,
                                 position |-> position, at |-> Len(q.log)]],
              "hdrGet", Call("getDocument", docId, "", NoStr, NoStr, NoStr, FALSE))

\* a helper that goes on to the update whether or not it got the document
HdrGetDoneUnchecked(q, res) ==
    StartCall([q EXCEPT !.fetched = res.json], "hdrUpd",
              AppendHeaderCall(q.hdr.docId, q.hdr.header, q.hdr.position, res.json))

\* api.getDocument has answered
HdrGetDone(q, res) ==
    IF ~res.ok THEN HandlerCatch(q, res.err)
    ELSE StartCall([q EXCEPT !.fetched = res.json], "hdrUpd",
                   AppendHeaderCall(q.hdr.docId, q.hdr.header, q.hdr.position, res.json))

HdrUpdDone(q, res) == IF ~res.ok THEN HandlerCatch(q, res.err) ELSE Success(q)

----------------------------------------------------------------------------
(* background.js: the action handlers after the collection is resolved *)

\* Add header if provided
AfterRename(q) ==
    IF q.docId # "" /\ q.msg.headerMarkdown # NoStr
    THEN StartHeader(q, q.docId, q.msg.headerMarkdown, HeaderPosition(q.msg))
    ELSE Success(q)

\* a rename that sends the header along with the fetched body
RenameGetDoneWithHeader(q, res) ==
    IF ~res.ok THEN HandlerCatch(q, res.err)
    ELSE LET currentText == IF res.json.hasData THEN res.json.text ELSE NoStr
         IN  StartCall([q EXCEPT !.fetched = res.json], "renameUpd",
                       Call("updateDocument", q.docId, "", NoStr, q.msg.title,
                            q.msg.headerMarkdown \o currentText, FALSE))

RenameGetDone(q, res) ==
    IF ~res.ok THEN HandlerCatch(q, res.err)
    ELSE LET currentText == IF res.json.hasData THEN res.json.text ELSE NoStr
         IN  StartCall([q EXCEPT !.fetched = res.json], "renameUpd",
                       Call("updateDocument", q.docId, "", NoStr, q.msg.title, currentText,
                            FALSE))

\* a rename whose failure does not stop the handler
RenameUpdDoneIgnores(q, res) == AfterRename(q)

RenameUpdDone(q, res) == IF ~res.ok THEN HandlerCatch(q, res.err) ELSE AfterRename(q)

NoDocIdError(action) ==
    IF action = "importGoogleSheet"
    THEN Err("Error", <<"Failed to get document ID from import response">>)
    ELSE Err("Error", <<"Failed to get document ID from API response">>)

\* a handler that builds the URL from the URL as stored
DocDoneStoredUrl(q, res) ==
    IF ~res.ok THEN HandlerCatch(q, res.err)
    ELSE IF ~res.json.hasData \/ res.json.id = ""
    THEN HandlerCatch(q, NoDocIdError(q.msg.action))
    ELSE LET q1 == [q EXCEPT !.docId = res.json.id,
                             !.docUrl = syncStore.outlineUrl \o <<"/doc/", res.json.id>>]
         IN  IF q.msg.action = "importGoogleSheet" /\ q.msg.title # NoStr
             THEN StartCall(q1, "renameGet",
                            Call("getDocument", q1.docId, "", NoStr, NoStr, NoStr, FALSE))
             ELSE AfterRename(q1)

\* createDocument / importDocument has answered
DocDone(q, res) ==
    IF ~res.ok THEN HandlerCatch(q, res.err)
    ELSE IF ~res.json.hasData \/ res.json.id = ""
    THEN HandlerCatch(q, NoDocIdError(q.msg.action))
    ELSE LET q1 == [q EXCEPT !.docId = res.json.id,
                             !.docUrl = q.cfg.outlineUrl \o <<"/doc/", res.json.id>>]
         IN  IF q.msg.action = "importGoogleSheet" /\ q.msg.title # NoStr
             THEN StartCall(q1, "renameGet",
                            Call("getDocument", q1.docId, "", NoStr, NoStr, NoStr, FALSE))
             ELSE AfterRename(q1)

\* (request.title || "import") + ".csv"
FileName(msg) == (IF msg.title # NoStr THEN msg.title ELSE <<"import">>) \o <<".csv">>

\* getOrCreateCollection has returned collectionId
AfterResolve(q) ==
    IF q.msg.action \notin Actions THEN Returned(q)
    ELSE IF q.msg.action = "importGoogleSheet"
    THEN StartCall([q EXCEPT !.inv = NoInv], "doc",
                   Call("importDocument", "", q.collectionId, NoStr, FileName(q.msg),
                        q.msg.fileContent, FALSE))
    ELSE StartCall([q EXCEPT !.inv = NoInv], "doc",
                   Call("createDocument", "", q.collectionId, NoStr, q.msg.title,
                        q.msg.content, FALSE))

----------------------------------------------------------------------------
(* background.js: getOrCreateCollection *)

\* the creation loop: while (retryCount <= maxRetries) { createCollection ... }
CreateLoop(q) ==
    IF q.retryCount <= MAX_RETRIES
    THEN StartCall(q, "create", Call("createCollection", "", "", q.name, NoStr, NoStr, FALSE))
    ELSE AfterResolve(q)

\* if (!isVerified) { retryCount = 0; ... }  return collectionId
AfterVerify(q) ==
    IF ~q.isVerified THEN CreateLoop([q EXCEPT !.retryCount = 0]) ELSE AfterResolve(q)

\* the verification loop: while (retryCount <= maxRetries && !isVerified)
VerifyLoop(q) ==
    IF q.retryCount <= MAX_RETRIES /\ ~q.isVerified
    THEN StartCall(q, "verify", Call("getCollection", q.collectionId, "", NoStr, NoStr, NoStr,
                                     FALSE))
    ELSE AfterVerify(q)

\* getLocalStorage(storageKey) has answered with the stored id
Resolve(q, stored) ==
    LET q1 == [q EXCEPT !.collectionId = stored, !.isVerified = FALSE, !.retryCount = 0,
                        !.inv = [@ EXCEPT !.stored = stored]]
    IN  IF stored # "" THEN VerifyLoop(q1) ELSE AfterVerify(q1)

\* the failures of getCollection that are not retried
StopsVerification(msg) ==
    \/ Includes(msg, "not found")
    \/ Includes(msg, "deleted")
    \/ Includes(msg, "archived")
    \/ Includes(msg, "Authentication error")

\* a verification that tries again whatever the failure
VerifyDoneRetriesAll(q, res) ==
    IF res.ok THEN VerifyLoop([q EXCEPT !.isVerified = TRUE])
    ELSE VerifyLoop([q EXCEPT !.retryCount = @ + 1, !.isVerified = FALSE])

\* a verification whose failure ends the invocation
VerifyDoneRethrows(q, res) ==
    IF res.ok THEN VerifyLoop([q EXCEPT !.isVerified = TRUE])
    ELSE IF StopsVerification(res.err.msg) THEN HandlerCatch(q, res.err)
    ELSE VerifyLoop([q EXCEPT !.retryCount = @ + 1, !.isVerified = FALSE])

\* a verification that does not remember its success
VerifyDoneForgets(q, res) ==
    IF res.ok THEN AfterVerify(q)
    ELSE IF StopsVerification(res.err.msg) THEN AfterVerify([q EXCEPT !.isVerified = FALSE])
    ELSE VerifyLoop([q EXCEPT !.retryCount = @ + 1, !.isVerified = FALSE])

\* api.getCollection has answered
VerifyDone(q, res) ==
    IF res.ok THEN VerifyLoop([q EXCEPT !.isVerified = TRUE])
    ELSE IF StopsVerification(res.err.msg) THEN AfterVerify([q EXCEPT !.isVerified = FALSE])
    ELSE VerifyLoop([q EXCEPT !.retryCount = @ + 1, !.isVerified = FALSE])

\* the catch block of the creation loop
CreateCatch(q, createErr) ==
    IF Includes(createErr.msg, "Authentication error")
    THEN HandlerCatch([q EXCEPT !.inv = [@ EXCEPT !.fails = @ + 1]],
                      Err("Error", <<"Failed to create collection: ">> \o createErr.msg))
    ELSE LET q1 == [q EXCEPT !.retryCount = @ + 1, !.inv = [@ EXCEPT !.fails = @ + 1]]
         IN  IF q1.retryCount <= MAX_RETRIES
             THEN CreateLoop(q1)
             ELSE HandlerCatch(q1, Err("Error",
                     <<"Failed to create or access collection after multiple attempts: ">>
                     \o createErr.msg))

\* a creation that returns the new id without storing it
CreateDoneNoWrite(q, res) ==
    IF ~res.ok THEN CreateCatch(q, res.err)
    ELSE AfterResolve([q EXCEPT !.collectionId = res.json.id])

\* api.createCollection has answered: on success setLocalStorage is called
CreateDone(q, res) ==
    IF ~res.ok THEN CreateCatch(q, res.err)
    ELSE [q EXCEPT !.collectionId = res.json.id, !.pc = "locWrite",
                   !.touched = @ \cup {<<"set", q.key>>},
                   !.inv = [@ EXCEPT !.writes = Append(@, res.json.id)]]

\* chrome.runtime.lastError of a storage call
LastError == Err("Error", <<"storage failure">>)

\* setLocalStorage has answered
WriteDone(q, ok) == IF ok THEN AfterResolve(q) ELSE CreateCatch(q, LastError)

\* what follows the answer to the API call of q
ApiDone(q, res) ==
    CASE q.stage = "verify" -> VerifyDone(q, res)
      [] q.stage = "create" -> CreateDone(q, res)
      [] q.stage = "doc" -> DocDone(q, res)
      [] q.stage = "renameGet" -> RenameGetDone(q, res)
      [] q.stage = "renameUpd" -> RenameUpdDone(q, res)
      [] q.stage = "hdrGet" -> HdrGetDone(q, res)
      [] OTHER -> HdrUpdDone(q, res)

----------------------------------------------------------------------------
(* background.js: validation and dispatch *)

\* a validation that takes blank content for content
ValidateDocumentRequestNoTrim(msg) ==
    IF msg.title = NoStr THEN <<"Missing required field: title">>
    ELSE IF msg.content = NoStr THEN <<"Missing required field: content">>
    ELSE IF StrLen(msg.title) > MAX_TITLE_LEN
    THEN <<"Title exceeds maximum length (255 characters)">>
    ELSE NoStr

\* validateDocumentRequest: the error, or <<>> for a valid request
ValidateDocumentRequest(msg) ==
    IF msg.title = NoStr THEN <<"Missing required field: title">>
    ELSE IF msg.content = NoStr THEN <<"Missing required field: content">>
    ELSE IF Trim(msg.content) = NoStr THEN <<"Empty document content">>
    ELSE IF StrLen(msg.title) > MAX_TITLE_LEN
    THEN <<"Title exceeds maximum length (255 characters)">>
    ELSE NoStr

\* validateSheetRequest
ValidateSheetRequest(msg) ==
    IF msg.fileContent = NoStr THEN <<"Missing required field: fileContent">>
    ELSE IF Trim(msg.fileContent) = NoStr THEN <<"Empty file content provided">>
    ELSE IF msg.title # NoStr /\ StrLen(msg.title) > MAX_TITLE_LEN
    THEN <<"Title exceeds maximum length (255 characters)">>
    ELSE NoStr

\* the start of getOrCreateCollection: getLocalStorage(storageKey) is called
StartResolve(q, storageKey, collectionName) ==
    [q EXCEPT !.pc = "locRead", !.key = storageKey, !.name = collectionName,
              !.touched = @ \cup {<<"get", storageKey>>}, !.inv = NoInv]

\* handlers that keep the id of both collections under one key
HandlerStartOneSlot(q) ==
    IF q.msg.action = "saveGoogleDoc"
    THEN IF ValidateDocumentRequest(q.msg) # NoStr
         THEN HandlerCatch(q, Err("Error", ValidateDocumentRequest(q.msg)))
         ELSE StartResolve(q, "collectionId", q.cfg.googleDocsCollectionName)
    ELSE IF q.msg.action = "importGoogleSheet"
    THEN IF ValidateSheetRequest(q.msg) # NoStr
         THEN HandlerCatch(q, Err("Error", ValidateSheetRequest(q.msg)))
         ELSE StartResolve(q, "collectionId", q.cfg.googleSheetsCollectionName)
    ELSE IF q.msg.docId = "" \/ q.msg.headerMarkdown = NoStr
    THEN HandlerCatch(q, Err("Error", <<"Missing required fields: docId and headerMarkdown">>))
    ELSE StartHeader(q, q.msg.docId, q.msg.headerMarkdown, HeaderPosition(q.msg))

\* handlers of which appendHeader does not check its fields
HandlerStartUnchecked(q) ==
    IF q.msg.action = "saveGoogleDoc"
    THEN IF ValidateDocumentRequest(q.msg) # NoStr
         THEN HandlerCatch(q, Err("Error", ValidateDocumentRequest(q.msg)))
         ELSE StartResolve(q, "collectionId", q.cfg.googleDocsCollectionName)
    ELSE IF q.msg.action = "importGoogleSheet"
    THEN IF ValidateSheetRequest(q.msg) # NoStr
         THEN HandlerCatch(q, Err("Error", ValidateSheetRequest(q.msg)))
         ELSE StartResolve(q, "collectionId_sheet", q.cfg.googleSheetsCollectionName)
    ELSE StartHeader(q, q.msg.docId, q.msg.headerMarkdown, HeaderPosition(q.msg))

\* actions[request.action](request, sendResponse, ...) up to its first await
HandlerStart(q) ==
    IF q.msg.action = "saveGoogleDoc"
    THEN IF ValidateDocumentRequest(q.msg) # NoStr
         THEN HandlerCatch(q, Err("Error", ValidateDocumentRequest(q.msg)))
         ELSE StartResolve(q, "collectionId", q.cfg.googleDocsCollectionName)
    ELSE IF q.msg.action = "importGoogleSheet"
    THEN IF ValidateSheetRequest(q.msg) # NoStr
         THEN HandlerCatch(q, Err("Error", ValidateSheetRequest(q.msg)))
         ELSE StartResolve(q, "collectionId_sheet", q.cfg.googleSheetsCollectionName)
    ELSE IF q.msg.docId = "" \/ q.msg.headerMarkdown = NoStr
    THEN HandlerCatch(q, Err("Error", <<"Missing required fields: docId and headerMarkdown">>))
    ELSE StartHeader(q, q.msg.docId, q.msg.headerMarkdown, HeaderPosition(q.msg))

\* a callback that leaves an unknown action unanswered
DispatchSilent(q) == IF q.msg.action \in Actions THEN HandlerStart(q) ELSE Done(q)

\* the callback the listener passes to withOutlineConfig
Dispatch(q) ==
    IF q.msg.action \in Actions
    THEN HandlerStart(q)
    ELSE Done(Respond(q, Resp(FALSE, <<"Unknown action">>, NoStr, "", FALSE, FALSE)))

----------------------------------------------------------------------------
(* background.js: configuration *)

\* new URL(url).protocol, "" when the URL does not parse
Protocol(url) ==
    LET t == Trim(url)
    IN  IF t = NoStr THEN ""
        ELSE CASE Head(t) = "http://h" -> "http:"
               [] Head(t) = "https://h" -> "https:"
               [] Head(t) = "ftp://h" -> "ftp:"
               [] OTHER -> ""

IsValidUrl(url) == url # NoStr /\ Protocol(url) \in {"http:", "https:"}

IsValidApiToken(token) == token # NoStr /\ StrLen(Trim(token)) >= MIN_TOKEN_LEN

\* outlineUrl.trim().replace(/\/$/, '')
NormalizeUrl(url) ==
    LET t == Trim(url)
    IN  IF t # NoStr /\ t[Len(t)] = "/" THEN SubSeq(t, 1, Len(t) - 1) ELSE t

\* name?.trim() || fallback
NameOr(name, fallback) == IF Trim(name) # NoStr THEN Trim(name) ELSE fallback

\* the checks without the one of the token's format
ConfigErrorAnyToken(stored) ==
    IF stored.outlineUrl = NoStr \/ stored.apiToken = NoStr
    THEN <<"Outline settings not configured. Please update options.">>
    ELSE IF ~IsValidUrl(stored.outlineUrl)
    THEN <<"Invalid Outline URL format. Please check your settings.">>
    ELSE NoStr

\* the error withOutlineConfig answers a stored configuration with, <<>> if none
ConfigError(stored) ==
    IF stored.outlineUrl = NoStr \/ stored.apiToken = NoStr
    THEN <<"Outline settings not configured. Please update options.">>
    ELSE IF ~IsValidUrl(stored.outlineUrl)
    THEN <<"Invalid Outline URL format. Please check your settings.">>
    ELSE IF ~IsValidApiToken(stored.apiToken)
    THEN <<"Invalid API token format. Please check your settings.">>
    ELSE NoStr

\* the value withOutlineConfig caches
LoadedConfig(stored) ==
    Config(TRUE, NormalizeUrl(stored.outlineUrl), Trim(stored.apiToken),
           NameOr(stored.googleDocsCollectionName, <<"google-docs">>),
           NameOr(stored.googleSheetsCollectionName, <<"google-sheets">>))

\* a listener that loads the configuration for every message
ListenerAlwaysLoads(m, cached) ==
    LET q == [Idle EXCEPT !.msg = m]
    IN  IF m.action = ""
        THEN Done(Respond(q, Resp(FALSE, <<"Invalid request: missing action">>, NoStr, "",
                                  FALSE, FALSE)))
        ELSE [q EXCEPT !.pc = "cfgRead", !.touched = @ \cup {<<"get", "sync">>}]

\* the listener up to its first await; cached is cachedConfig
Listener(m, cached) ==
    LET q == [Idle EXCEPT !.msg = m]
    IN  IF m.action = ""
        THEN Done(Respond(q, Resp(FALSE, <<"Invalid request: missing action">>, NoStr, "",
                                  FALSE, FALSE)))
        ELSE IF ~cached.set
        THEN [q EXCEPT !.pc = "cfgRead", !.touched = @ \cup {<<"get", "sync">>}]
        ELSE Dispatch([q EXCEPT !.cfg = cached])

\* withOutlineConfig after getSyncStorage has answered; stored is what it read
ConfigLoaded(q, ok, stored) ==
    IF ~ok THEN Done(RespondWithError(q, LastError))
    ELSE IF ConfigError(stored) # NoStr
    THEN Done(RespondWithError(q, Err("Error", ConfigError(stored))))
    ELSE Dispatch([q EXCEPT !.cfg = LoadedConfig(stored)])

----------------------------------------------------------------------------
(* The remote service *)

\* the 2xx body shapes that make a difference to each method
ShapesOf(op) ==
    CASE op = "getCollection" -> {"full", "badjson", "nodata", "deleted", "archived"}
      [] op = "getDocument" -> {"full", "badjson", "nodata"}
      [] op = "updateDocument" -> {"full", "badjson"}
      [] OTHER -> {"full", "badjson", "nodata", "noid"}

Mutates(op) == op \in {"createCollection", "createDocument", "importDocument", "updateDocument"}

\* the outcomes the remote can produce for a call in its present state
CanAnswer(call, o) ==
    /\ o.status = 200 => o.shape \in ShapesOf(call.op)
    /\ ~Mutates(call.op) => o.done = (o.status = 200)
    /\ (call.op \in {"getDocument", "updateDocument"} /\ call.id \notin DOMAIN docs)
          => ~o.done /\ o.status # 200
    /\ (call.op = "createCollection" /\ o.done) => nextColl < MaxColl
    /\ (call.op \in {"createDocument", "importDocument"} /\ o.done) => nextDoc < MaxDoc

\* the document an import makes of a file: named after the file, its content a table
Imported(call) ==
    [title |-> SubSeq(call.title, 1, Len(call.title) - 1), text |-> <<"<table>">> \o call.text]

\* the documents after the remote carried out the call
DocsAfter(call) ==
    CASE call.op = "createDocument" ->
            (DocIds[nextDoc + 1] :> [title |-> call.title, text |-> call.text]) @@ docs
      [] call.op = "importDocument" -> (DocIds[nextDoc + 1] :> Imported(call)) @@ docs
      [] call.op = "updateDocument" ->
            [docs EXCEPT ![call.id] =
                [title |-> call.title,
                 text |-> IF call.append THEN @.text \o call.text ELSE call.text]]
      [] OTHER -> docs

\* the body of a 2xx answer
Answer(call, shape) ==
    LET id == CASE call.op = "createCollection" -> CollIds[nextColl + 1]
                [] call.op \in {"createDocument", "importDocument"} -> DocIds[nextDoc + 1]
                [] OTHER -> call.id
        doc == IF call.op \in {"getDocument", "updateDocument"}
               THEN DocsAfter(call)[call.id]
               ELSE IF call.op \in {"createDocument", "importDocument"}
               THEN DocsAfter(call)[id]
               ELSE [title |-> NoStr, text |-> NoStr]
    IN  CASE shape = "full" -> Json(TRUE, id, FALSE, FALSE, doc.title, doc.text)
          [] shape = "deleted" -> Json(TRUE, id, TRUE, FALSE, NoStr, NoStr)
          [] shape = "archived" -> Json(TRUE, id, FALSE, TRUE, NoStr, NoStr)
          [] shape = "noid" -> Json(TRUE, "", FALSE, FALSE, NoStr, NoStr)
          [] OTHER -> NoJson

----------------------------------------------------------------------------
(* Inputs *)

Header == <<"H">>

\* a request with each header option
Headed(action, title, body) ==
    {Msg(action, title, IF action = "saveGoogleDoc" THEN body ELSE NoStr,
         IF action = "importGoogleSheet" THEN body ELSE NoStr, h[1], h[2], "") :
        h \in {<<NoStr, "">>, <<Header, "">>, <<Header, "top">>, <<Header, "bottom">>}}

\* a request without header
Plain(action, title, body) ==
    Msg(action, title, IF action = "saveGoogleDoc" THEN body ELSE NoStr,
        IF action = "importGoogleSheet" THEN body ELSE NoStr, NoStr, "", "")

\* The messages tried: no action, an unknown action, and for each action the
\* valid requests with every header option and a request failing each check.
Messages ==
    {Msg("", NoStr, NoStr, NoStr, NoStr, "", ""),
     Msg("frobulate", NoStr, NoStr, NoStr, NoStr, "", "")}
    \cup Headed("saveGoogleDoc", <<"T">>, <<"C">>)
    \cup {Plain("saveGoogleDoc", <<"t255">>, <<"C">>)}
    \cup {Plain("saveGoogleDoc", NoStr, <<"C">>), Plain("saveGoogleDoc", <<"T">>, NoStr),
          Plain("saveGoogleDoc", <<"T">>, <<" ">>), Plain("saveGoogleDoc", <<"t256">>, <<"C">>),
          Plain("saveGoogleDoc", NoStr, NoStr), Plain("saveGoogleDoc", <<"t256">>, <<" ">>)}
    \cup {Plain("importGoogleSheet", NoStr, <<"C">>)}
    \cup Headed("importGoogleSheet", <<"T">>, <<"C">>)
    \cup {Plain("importGoogleSheet", <<"T">>, NoStr), Plain("importGoogleSheet", NoStr, <<" ">>),
          Plain("importGoogleSheet", <<"t256">>, <<"C">>)}
    \cup {Msg("appendHeader", NoStr, NoStr, NoStr, h[1], h[2], d) :
              h \in {<<Header, "">>, <<Header, "top">>, <<Header, "bottom">>},
              d \in {OldDoc, "d?"}}
    \cup {Msg("appendHeader", NoStr, NoStr, NoStr, Header, "", ""),
          Msg("appendHeader", NoStr, NoStr, NoStr, NoStr, "top", OldDoc)}

\* what the options page can have stored
SyncValues ==
    {Config(TRUE, NoStr, NoStr, NoStr, NoStr),
     Config(TRUE, <<"http://h">>, <<"k10chars">>, NoStr, NoStr),
     Config(TRUE, <<"https://h", "/">>, <<" ", "K10chars", " ">>, <<"my-docs">>, <<" ">>),
     Config(TRUE, <<"http://h", "/", "/">>, <<"k10chars">>, NoStr, <<"my-sheets">>),
     Config(TRUE, <<"ftp://h">>, <<"k10chars">>, NoStr, NoStr),
     Config(TRUE, <<"h.example">>, <<"k10chars">>, NoStr, NoStr),
     Config(TRUE, <<"http://h">>, <<" ", "k9chars">>, NoStr, NoStr),
     Config(TRUE, <<"http://h">>, NoStr, NoStr, NoStr)}

\* what the options page stores: trimmed, non-empty URL and token, which it does
\* not validate, and collection names with their defaults filled in
OptionsValues ==
    {Config(TRUE, <<"http://h">>, <<"k10chars">>, <<"google-docs">>, <<"google-sheets">>),
     Config(TRUE, <<"https://h", "/">>, <<"K10chars">>, <<"my-docs">>, <<"google-sheets">>),
     Config(TRUE, <<"http://h">>, <<"k10chars">>, <<"google-docs">>, <<"my-sheets">>),
     Config(TRUE, <<"h.example">>, <<"k9chars">>, <<"google-docs">>, <<"google-sheets">>)}

\* the fetch outcomes tried on the calls of a message: one of each class
\* (no method passes a signal to _request, so no fetch of a message is aborted;
\* a failed call that the remote carried out all the same is tried on documents)
MessageOutcomes ==
    {o \in FetchOutcomes :
        /\ o.kind # "abort"
        /\ o.body \in {"<json>", "<body>", "Failed to fetch"}
        /\ o.status \in {0, 200, 401, 404, 500}
        /\ o.done => o.status \in {200, 500}}

----------------------------------------------------------------------------
(* Actions *)

\* a storage in which setLocalStorage replaces only the value its caller read
ResumeCompareAndSet(r, q) ==
    \E ok \in (IF q.pc \in {"cfgRead", "locRead", "locWrite"} THEN BOOLEAN ELSE {TRUE}) :
        /\ req' = [req EXCEPT ![r] =
                     [q EXCEPT !.ioOk = ok, !.storageOk = @ /\ ok,
                               !.ioVal = IF q.pc = "cfgRead" /\ ok THEN syncStore ELSE NoConfig,
                               !.ioId = IF q.pc = "locRead" /\ ok THEN localStore[q.key]
                                        ELSE ""]]
        /\ localStore' = IF /\ q.pc = "locWrite" /\ ok /\ q.collectionId # ""
                            /\ localStore[q.key] = q.inv.stored
                         THEN [localStore EXCEPT ![q.key] = q.collectionId]
                         ELSE localStore

\* a storage in which a setLocalStorage that reports a failure has stored the id
ResumeStoresOnFailure(r, q) ==
    \E ok \in (IF q.pc \in {"cfgRead", "locRead", "locWrite"} THEN BOOLEAN ELSE {TRUE}) :
        /\ req' = [req EXCEPT ![r] =
                     [q EXCEPT !.ioOk = ok, !.storageOk = @ /\ ok,
                               !.ioVal = IF q.pc = "cfgRead" /\ ok THEN syncStore ELSE NoConfig,
                               !.ioId = IF q.pc = "locRead" /\ ok THEN localStore[q.key]
                                        ELSE ""]]
        /\ localStore' = IF q.pc = "locWrite" /\ q.collectionId # ""
                         THEN [localStore EXCEPT ![q.key] = q.collectionId]
                         ELSE localStore

\* A step of message r ends in q: a storage call it has just issued is carried
\* out, or fails, now; its callback runs later.
Resume(r, q) ==
    \E ok \in (IF q.pc \in {"cfgRead", "locRead", "locWrite"} THEN BOOLEAN ELSE {TRUE}) :
        /\ req' = [req EXCEPT ![r] =
                     [q EXCEPT !.ioOk = ok, !.storageOk = @ /\ ok,
                               !.ioVal = IF q.pc = "cfgRead" /\ ok THEN syncStore ELSE NoConfig,
                               !.ioId = IF q.pc = "locRead" /\ ok THEN localStore[q.key]
                                        ELSE ""]]
        /\ localStore' = IF q.pc = "locWrite" /\ ok /\ q.collectionId # ""
                         THEN [localStore EXCEPT ![q.key] = q.collectionId]
                         ELSE localStore

\* chrome.runtime.onMessage: message m arrives
Receive(r, m, limit) ==
    /\ req[r].pc \in {"idle", "done"}
    /\ received < limit
    /\ received' = received + 1
    /\ fresh' = FALSE
    /\ Resume(r, [Listener(m, cachedConfig) EXCEPT !.fresh = fresh, !.epoch = changes])
    /\ UNCHANGED <<page, cachedConfig, syncStore, changePending, nextColl, docs, nextDoc, changes>>

\* getSyncStorage answers
ConfigRead(r) ==
    /\ req[r].pc = "cfgRead"
    /\ LET q == ConfigLoaded(req[r], req[r].ioOk, req[r].ioVal)
       IN  /\ cachedConfig' = IF q.cfg.set THEN q.cfg ELSE cachedConfig
           /\ Resume(r, q)
    /\ UNCHANGED <<page, syncStore, changePending, nextColl, docs, nextDoc, received, changes,
                   fresh>>

\* getLocalStorage answers
LocalRead(r) ==
    /\ req[r].pc = "locRead"
    /\ Resume(r, IF req[r].ioOk THEN Resolve(req[r], req[r].ioId)
                 ELSE HandlerCatch(req[r], LastError))
    /\ UNCHANGED <<page, cachedConfig, syncStore, changePending, nextColl, docs, nextDoc,
                   received, changes, fresh>>

\* setLocalStorage answers
LocalWrite(r) ==
    /\ req[r].pc = "locWrite"
    /\ Resume(r, WriteDone(req[r], req[r].ioOk))
    /\ UNCHANGED <<page, cachedConfig, syncStore, changePending, nextColl, docs, nextDoc,
                   received, changes, fresh>>

\* how _request goes on after one pass of its loop
AfterStep(q, o, step) ==
    LET again == step.end = "continue" /\ LoopEnters(step.attempts, q.retry)
        end == IF step.end = "continue" /\ ~again THEN "undefined" ELSE step.end
        res == ApiResult(q.call.op, q.call, [end |-> end, err |-> step.err, json |-> step.json])
        \* the fetch is counted
        q1 == [q EXCEPT !.attempts = step.attempts, !.nFetch = @ + 1,
                        !.remoteOk = @ /\ o.status = 200 /\ o.shape = "full",
                        !.gotDocs = @ /\ ((q.call.op = "getDocument" /\ o.status = 200)
                                              => o.shape = "full"),
                        !.statuses = IF q.stage = "raw" THEN @ \cup {o.status} ELSE @,
                        !.classes = IF q.stage = "raw" THEN Append(@, OutcomeClass(o)) ELSE @,
                        !.last = IF q.stage = "raw"
                                 THEN [end |-> end, err |-> step.err, json |-> step.json,
                                       status |-> o.status, body |-> o.body]
                                 ELSE @]
        \* the end of the call is recorded
        q2 == [q1 EXCEPT !.results = IF q.stage \in {"verify", "create"} THEN @
                                     ELSE Append(@, IF res.ok THEN "ok" ELSE "fail"),
                         !.failure = IF q.stage \in {"verify", "create"} \/ res.ok THEN @
                                     ELSE res.err,
                         !.inv = IF q.stage = "verify"
                                 THEN [@ EXCEPT !.verify = [ok |-> res.ok, status |-> o.status,
                                                            shape |-> o.shape],
                                                !.retried =
                                                    IF res.ok \/ StopsVerification(res.err.msg)
                                                    THEN @ ELSE @ + 1]
                                 ELSE @]
    IN  IF again THEN q1
        ELSE IF q.stage = "raw" THEN Done(q1)
        ELSE ApiDone(q2, res)

\* The methods whose fetch carries the signal of the caller's controller: the
\* API methods pass no signal option to _request, only a direct call can.
PassesSignal(op) == op = "raw"

\* the fetch in progress of q is cancelled by the abort of the controller
Abortable(q) == q.aborted /\ PassesSignal(q.call.op)

\* the fetch of message r ends with outcome o
Fetch(r, o) ==
    /\ req[r].pc = "fetch"
    /\ req[r].hung => (o.kind = "abort" /\ Abortable(req[r]))
    /\ CanAnswer(req[r].call, o)
    /\ LET q == req[r]
           json == IF o.status = 200 THEN Answer(q.call, o.shape) ELSE NoJson
       IN  Resume(r, AfterStep(q, o, RequestStep(q.attempts, q.retry, o, json)))
    /\ nextColl' = IF o.done /\ req[r].call.op = "createCollection"
                   THEN nextColl + 1 ELSE nextColl
    /\ nextDoc' = IF o.done /\ req[r].call.op \in {"createDocument", "importDocument"}
                  THEN nextDoc + 1 ELSE nextDoc
    /\ docs' = IF o.done THEN DocsAfter(req[r].call) ELSE docs
    /\ UNCHANGED <<page, cachedConfig, syncStore, changePending, received, changes, fresh>>

\* the network never answers the fetch of message r
Hang(r) ==
    /\ req[r].pc = "fetch"
    /\ ~req[r].hung
    /\ req' = [req EXCEPT ![r] = [@ EXCEPT !.hung = TRUE]]
    /\ UNCHANGED <<page, cachedConfig, syncStore, changePending, localStore, nextColl, docs, nextDoc,
                   received, changes, fresh>>

\* the handler of message r is between createControllerWithTimeout and
\* clearControllerTimeout
TimerArmed(q) == q.msg.action \in Actions /\ q.pc \in {"locRead", "locWrite", "fetch"}

\* the timer of createControllerWithTimeout fires: controller.abort()
Timeout(r) ==
    /\ TimerArmed(req[r])
    /\ ~req[r].aborted
    /\ req' = [req EXCEPT ![r] = [@ EXCEPT !.aborted = TRUE]]
    /\ UNCHANGED <<page, cachedConfig, syncStore, changePending, localStore, nextColl, docs, nextDoc,
                   received, changes, fresh>>

\* the options page stores a changed configuration
OptionsSave(new) ==
    /\ changes < MaxChanges
    /\ new # syncStore
    /\ syncStore' = new
    /\ changePending' = TRUE
    /\ changes' = changes + 1
    /\ UNCHANGED <<page, req, cachedConfig, localStore, nextColl, docs, nextDoc, received, fresh>>

\* chrome.storage.onChanged for the sync area with one of the watched keys
OnChanged ==
    /\ changePending
    /\ changePending' = FALSE
    /\ cachedConfig' = NoConfig
    /\ localStore' = [k \in Keys |-> ""]
    /\ fresh' = TRUE
    /\ UNCHANGED <<page, req, syncStore, nextColl, docs, nextDoc, received, changes>>

----------------------------------------------------------------------------
(* content.js and spreadsheet.js: the button of a page *)

Clicks == 1..MaxClicks

\* The page when its script has run: iconButton.dataset.saved and .url, the
\* closure variables isProcessing and timeoutId, the 60-second timers that are
\* armed, and where each invocation of handleClick waits.  History: the clicks
\* made, the export messages sent, the windows opened, whether an export
\* message was sent when the page was saved already, and the label shown for
\* the last answer of the background that was a failure.
Page(script) ==
    [script |-> script, pathOk |-> TRUE, saved |-> FALSE, url |-> NoStr,
     isProcessing |-> FALSE, timeoutId |-> 0, timers |-> {},
     run |-> [c \in Clicks |-> "idle"],
     clicks |-> 0, sent |-> 0, opened |-> 0, sentWhenSaved |-> FALSE, shown |-> ""]

\* displayError(...) and the finally block of handleClick c
Finally(p, c) ==
    [p EXCEPT !.run[c] = "done",
              !.isProcessing = FALSE,
              !.timers = IF p.script = "content" THEN @ \ {p.timeoutId} ELSE @]

\* window.open(url, "_blank") if there is a url
OpenSaved(p) == [p EXCEPT !.opened = IF p.url # NoStr THEN @ + 1 ELSE @]

\* handleClick c up to its first await; online is navigator.onLine
HandleClick(p, c, online) ==
    IF p.isProcessing
    THEN p
    ELSE IF p.script = "spreadsheet" /\ p.saved
    THEN OpenSaved(p)
    ELSE LET started == [p EXCEPT !.isProcessing = TRUE,
                                  !.url = NoStr,
                                  !.timeoutId = IF p.script = "content" THEN c ELSE @,
                                  !.timers = IF p.script = "content"
                                             THEN @ \cup {c} ELSE @]
         IN  IF ~p.pathOk \/ ~online
             THEN Finally(started, c)
             ELSE [started EXCEPT !.run[c] = "fetch"]

\* The button is clicked.  content.js looks at dataset.saved in the listener,
\* spreadsheet.js in handleClick.
Click(c, online) ==
    /\ c = page.clicks + 1
    /\ LET p == [page EXCEPT !.clicks = c]
       IN  page' = IF p.script = "content" /\ p.saved
                   THEN OpenSaved(p)
                   ELSE HandleClick(p, c, online)
    /\ UNCHANGED <<req, cachedConfig, syncStore, changePending, localStore, nextColl, docs,
                   nextDoc, received, changes, fresh>>

\* fetch(exportUrl) settles: ok is a 2xx answer of a text type; if not, the
\* fetch was rejected or aborted after 30 seconds or the answer is refused
ExportFetched(c, ok) ==
    /\ page.run[c] = "fetch"
    /\ page' = IF ok THEN [page EXCEPT !.run[c] = "text"] ELSE Finally(page, c)
    /\ UNCHANGED <<req, cachedConfig, syncStore, changePending, localStore, nextColl, docs,
                   nextDoc, received, changes, fresh>>

\* fetchResponse.text() settles: ok is a text that is not blank, and the export
\* message is sent with it
TextRead(c, ok) ==
    /\ page.run[c] = "text"
    /\ page' = IF ok
               THEN [page EXCEPT !.run[c] = "message",
                                 !.sent = @ + 1,
                                 !.sentWhenSaved = @ \/ page.saved]
               ELSE Finally(page, c)
    /\ UNCHANGED <<req, cachedConfig, syncStore, changePending, localStore, nextColl, docs,
                   nextDoc, received, changes, fresh>>

\* The label the catch block of handleClick gives displayError; online is
\* navigator.onLine.  "Error: ..." is "Error: " and the first 15 characters of
\* the message.
ErrorLabel(script, online, err) ==
    IF ~online THEN "Offline"
    ELSE IF Includes(err.msg, "Authentication") THEN "Auth Error"
    ELSE IF Includes(err.msg, "Extension") \/ Includes(err.msg, "Connection")
    THEN "Ext Error"
    ELSE IF Includes(err.msg, "server error") THEN "Server Error"
    ELSE IF Includes(err.msg, IF script = "content" THEN "empty document"
                                                    ELSE "empty spreadsheet")
    THEN "Empty Data"
    ELSE IF Includes(err.msg, "unexpected file format") THEN "Format Error"
    ELSE IF err.name = "TypeError" /\ Includes(err.msg, "network") THEN "Network Error"
    ELSE IF script = "content" /\ (err.name = "AbortError" \/ Includes(err.msg, "timed out"))
    THEN "Timeout"
    ELSE IF script = "spreadsheet" /\ err.name = "AbortError" THEN "Cancelled"
    ELSE IF script = "content" THEN "Error: ..." ELSE "Error"

\* what the inner catch of handleClick throws for a response that is a failure:
\* new Error(response.error || "Unknown error"), replaced if it tells of the
\* extension
MessageError(response) ==
    LET msg == IF response.error # NoStr THEN response.error ELSE <<"Unknown error">>
    IN  IF Includes(msg, "Extension context invalidated")
        THEN Err("Error", <<"Extension reloaded. Please refresh the page and try again.">>)
        ELSE IF Includes(msg, "Could not establish connection")
        THEN Err("Error", <<"Connection to extension failed. Please refresh the page.">>)
        ELSE IF Includes(msg, "Message timeout")
        THEN Err("Error", <<"Operation timed out. Please try again.">>)
        ELSE Err("Error", msg)

\* sendMessagePromise settles: answered with the response of the background, or
\* not answered (runtime.lastError, no response, the 30-second message timeout)
Responded(c, answered, response) ==
    /\ page.run[c] = "message"
    /\ page' = IF answered /\ response.success
               THEN Finally([page EXCEPT !.saved = TRUE, !.url = response.url], c)
               ELSE IF answered
               THEN Finally([page EXCEPT !.shown = ErrorLabel(page.script, TRUE,
                                                              MessageError(response))], c)
               ELSE Finally(page, c)
    /\ UNCHANGED <<req, cachedConfig, syncStore, changePending, localStore, nextColl, docs,
                   nextDoc, received, changes, fresh>>

\* The 60-second timer of handleClick c fires (content.js).  The fetch of the
\* export is aborted after 30 seconds, so the timer does not fire during it.
GlobalTimeout(c) ==
    /\ c \in page.timers
    /\ page.run[c] # "fetch"
    /\ page' = IF page.isProcessing
               THEN [page EXCEPT !.isProcessing = FALSE,
                                 !.timers = (@ \ {c}) \ {page.timeoutId}]
               ELSE [page EXCEPT !.timers = @ \ {c}]
    /\ UNCHANGED <<req, cachedConfig, syncStore, changePending, localStore, nextColl, docs,
                   nextDoc, received, changes, fresh>>

----------------------------------------------------------------------------
(* Specifications *)

Remote0 == (OldDoc :> [title |-> <<"T0">>, text |-> <<"B0">>])

\* The background page after start: nothing cached, local storage as an earlier
\* run left it.  One message is handled, with every outcome of every call.
Init ==
    /\ req = [r \in Reqs |-> Idle]
    /\ cachedConfig = NoConfig
    /\ syncStore \in SyncValues
    /\ changePending = FALSE
    /\ localStore \in {[k \in Keys |-> ""], [k \in Keys |-> OldColl]}
    /\ nextColl = 0
    /\ docs = Remote0
    /\ nextDoc = 0
    /\ received = 0
    /\ changes = 0
    /\ fresh = FALSE
    /\ page = Page("")

Next ==
    \/ \E m \in Messages : Receive(1, m, 1)
    \/ ConfigRead(1)
    \/ LocalRead(1)
    \/ LocalWrite(1)
    \/ \E o \in MessageOutcomes :
          /\ (o.done /\ o.status # 200) => req[1].call.op # "createCollection"
          /\ Fetch(1, o)

Spec == Init /\ [][Next]_vars

\* a direct call of _request with retry budget n
RawCall(n) ==
    [Idle EXCEPT !.pc = IF LoopEnters(0, n) THEN "fetch" ELSE "done",
                 !.stage = "raw",
                 !.call = Call("raw", "", "", NoStr, NoStr, NoStr, FALSE),
                 !.retry = n,
                 !.last = [@ EXCEPT !.end = IF LoopEnters(0, n) THEN "" ELSE "undefined"]]

\* the token of the OutlineAPI object that is called directly
RawToken == <<"k10chars">>

\* the options a caller of _request can pass
RawOptions ==
    {Options(Headers(a, c), b) : a \in {NoStr, <<"Bearer ", "other">>, <<"Basic ", "x">>},
                                 c \in {NoStr, <<"text/plain">>},
                                 b \in {"", "json", "form"}}

InitRequest ==
    /\ \E n \in 0..MaxBudget, o \in RawOptions :
          req = [r \in Reqs |->
                    IF r = 1
                    THEN [RawCall(n) EXCEPT !.options = o,
                                            !.headers = RequestHeaders(o, RawToken)]
                    ELSE Idle]
    /\ cachedConfig = NoConfig
    /\ syncStore = Config(TRUE, NoStr, NoStr, NoStr, NoStr)
    /\ changePending = FALSE
    /\ localStore = [k \in Keys |-> ""]
    /\ nextColl = 0
    /\ docs = Remote0
    /\ nextDoc = 0
    /\ received = 0
    /\ changes = 0
    /\ fresh = FALSE
    /\ page = Page("")

NextRequest == \E o \in FetchOutcomes : Fetch(1, o)

\* OutlineAPI._request alone, for every retry budget and every run of outcomes
SpecRequest == InitRequest /\ [][NextRequest]_vars

\* a direct call getOrCreateCollection(api, storageKey, collectionName)
ResolveCall(storageKey, collectionName) == StartResolve(Idle, storageKey, collectionName)

\* (getCollection and createCollection pass no signal: their fetches are not aborted)
ResolveOutcomes == {o \in FetchOutcomes : o.kind # "abort"}

InitResolve ==
    /\ localStore \in [Keys -> {"", OldColl}]
    /\ \E slot \in {<<"collectionId", <<"google-docs">>>>, <<"collectionId_sheet", <<"my-sheets">>>>},
          ok \in BOOLEAN :
          req = [r \in Reqs |->
                   IF r = 1
                   THEN [ResolveCall(slot[1], slot[2]) EXCEPT
                            !.ioOk = ok, !.ioId = IF ok THEN localStore[slot[1]] ELSE ""]
                   ELSE Idle]
    /\ cachedConfig = NoConfig
    /\ syncStore = Config(TRUE, NoStr, NoStr, NoStr, NoStr)
    /\ changePending = FALSE
    /\ nextColl = 0
    /\ docs = Remote0
    /\ nextDoc = 0
    /\ received = 0
    /\ changes = 0
    /\ fresh = FALSE
    /\ page = Page("")

NextResolve ==
    \/ LocalRead(1)
    \/ LocalWrite(1)
    \/ \E o \in ResolveOutcomes : Fetch(1, o)

\* getOrCreateCollection alone, for both slots and every run of outcomes
SpecResolve == InitResolve /\ [][NextResolve]_vars

\* the remote of a race answers every call, with the record or with a 404
RaceOutcomes ==
    {o \in FetchOutcomes : (o.status = 200 /\ o.shape = "full") \/ (o.status = 404 /\ o.body = "<body>")}

InitRace ==
    /\ req = [r \in Reqs |-> Idle]
    /\ cachedConfig = NoConfig
    /\ syncStore = Config(TRUE, NoStr, NoStr, NoStr, NoStr)
    /\ changePending = FALSE
    /\ localStore \in {[k \in Keys |-> ""], [k \in Keys |-> OldColl]}
    /\ nextColl = 0
    /\ docs = Remote0
    /\ nextDoc = 0
    /\ received = 0
    /\ changes = 0
    /\ fresh = FALSE
    /\ page = Page("")

\* a handler calls getOrCreateCollection for the documents' key; its
\* getLocalStorage is issued
CallResolve(r) ==
    /\ req[r].pc = "idle"
    /\ Resume(r, ResolveCall("collectionId", <<"google-docs">>))
    /\ UNCHANGED <<page, cachedConfig, syncStore, changePending, nextColl, docs, nextDoc,
                   received, changes, fresh>>

NextRace ==
    \E r \in Reqs :
        \/ CallResolve(r)
        \/ LocalRead(r)
        \/ LocalWrite(r)
        \/ \E o \in RaceOutcomes : Fetch(r, o)

\* Invocations of getOrCreateCollection for the same key by handlers that run
\* at the same time: their awaits interleave in every order.
SpecRace == InitRace /\ [][NextRace]_vars

----------------------------------------------------------------------------
(* The backoff sleeps *)

RECURSIVE Pow2(_)
Pow2(n) == IF n <= 0 THEN 1 ELSE 2 * Pow2(n - 1)

Min(a, b) == IF a < b THEN a ELSE b
Max(a, b) == IF a > b THEN a ELSE b

\* _request, rate limiting: retryDelay * Math.pow(2, attempts - 1)
RateLimitDelay(retryDelay, attempts) == retryDelay * Pow2(attempts - 1)

\* _request, the other retries:
\* Math.max(0, Math.floor(baseDelay + baseDelay * 0.2 * (Math.random() * 2 - 1)))
\* with Math.random() = random / 1000
JitteredDelay(retryDelay, attempts, random) ==
    LET baseDelay == retryDelay * Pow2(attempts - 1)
    IN  Max(0, (baseDelay * (4000 + 2 * random)) \div 5000)

\* getOrCreateCollection, both loops:
\* Math.min(1000 * Math.pow(2, retryCount - 1) + Math.random() * 1000, 10000)
ResolverDelay(retryCount, random) ==
    Min(RESOLVER_BASE * Pow2(retryCount - 1) + random, BACKOFF_CEILING)

\* the duration of the sleep q is about to start
DelayOf(q) ==
    CASE q.sleep.branch = "rate" -> RateLimitDelay(q.sleep.retryDelay, q.attempts)
      [] q.sleep.branch \in {"verify", "create"} -> ResolverDelay(q.retryCount, q.sleep.random)
      [] OTHER -> JitteredDelay(q.sleep.retryDelay, q.attempts, q.sleep.random)

\* the values of the retryDelay option: the default and what the methods pass
RetryDelays == {500, 1000}
\* values of Math.random(), in thousandths
Randoms == {0, 250, 500, 750, 999}

\* a retry that is about to sleep: in _request after attempt `attempts` of a
\* call that has attempts left, in getOrCreateCollection with retryCount
\* already incremented and not above MAX_RETRIES
Sleepers ==
    {[Idle EXCEPT !.pc = "sleep", !.stage = "raw", !.retry = n, !.attempts = k,
                  !.sleep = Sleep(b, d, u, 0)] :
        n \in 1..MaxBudget, k \in 1..MaxBudget, b \in {"rate", "server", "network", "other"},
        d \in RetryDelays, u \in Randoms}
    \cup {[Idle EXCEPT !.pc = "sleep", !.stage = b, !.retryCount = k,
                       !.sleep = Sleep(b, 0, u, 0)] :
             k \in 1..MAX_RETRIES, b \in {"verify", "create"}, u \in Randoms}

InitBackoff ==
    /\ \E q \in {s \in Sleepers : s.stage = "raw" => s.attempts <= s.retry} :
          req = [r \in Reqs |-> IF r = 1 THEN q ELSE Idle]
    /\ cachedConfig = NoConfig
    /\ syncStore = Config(TRUE, NoStr, NoStr, NoStr, NoStr)
    /\ changePending = FALSE
    /\ localStore = [k \in Keys |-> ""]
    /\ nextColl = 0
    /\ docs = Remote0
    /\ nextDoc = 0
    /\ received = 0
    /\ changes = 0
    /\ fresh = FALSE
    /\ page = Page("")

\* await new Promise(resolve => setTimeout(resolve, delay)): the delay is computed
Backoff(r) ==
    /\ req[r].pc = "sleep"
    /\ req' = [req EXCEPT ![r] = [@ EXCEPT !.pc = "slept", !.sleep.ms = DelayOf(req[r])]]
    /\ UNCHANGED <<page, cachedConfig, syncStore, changePending, localStore, nextColl, docs,
                   nextDoc, received, changes, fresh>>

NextBackoff == Backoff(1)

\* Every backoff sleep of the two retry loops, for every attempt, retryDelay
\* and value of Math.random().
SpecBackoff == InitBackoff /\ [][NextBackoff]_vars

\* the messages of a session: one valid request for each action, one without action
SessionMessages ==
    {Msg("", NoStr, NoStr, NoStr, NoStr, "", ""),
     Plain("saveGoogleDoc", <<"T">>, <<"C">>),
     Plain("importGoogleSheet", NoStr, <<"C">>),
     Msg("appendHeader", NoStr, NoStr, NoStr, Header, "top", OldDoc)}

\* the remote of a session answers every call, with the record or with a 404
SessionOutcomes ==
    {o \in FetchOutcomes : (o.status = 200 /\ o.shape = "full") \/ (o.status = 404 /\ o.body = "<body>")}

NextSession ==
    \/ \E m \in SessionMessages : Receive(1, m, MaxMsgs)
    \/ ConfigRead(1)
    \/ LocalRead(1)
    \/ LocalWrite(1)
    \/ \E o \in SessionOutcomes : Fetch(1, o)
    \/ \E new \in OptionsValues : OptionsSave(new)
    \/ OnChanged

\* Several messages one after the other while the options page changes the
\* configuration, from the start of the background page.
SpecSession == Init /\ [][NextSession]_vars

\* the messages tried against a network that may hang: one for each action
TimeoutMessages ==
    {Plain("saveGoogleDoc", <<"T">>, <<"C">>),
     Msg("importGoogleSheet", <<"T">>, NoStr, <<"C">>, Header, "top", ""),
     Msg("appendHeader", NoStr, NoStr, NoStr, Header, "bottom", OldDoc)}

\* a fetch that is answered is answered with the record or with a 500
TimeoutOutcomes ==
    {o \in FetchOutcomes :
        \/ o.status = 200 /\ o.shape = "full"
        \/ o.status = 500 /\ o.body = "<body>" /\ ~o.done}

NextTimeout ==
    \/ \E m \in TimeoutMessages : Receive(1, m, 1)
    \/ ConfigRead(1)
    \/ LocalRead(1)
    \/ LocalWrite(1)
    \/ \E o \in TimeoutOutcomes : Fetch(1, o)
    \/ Hang(1)
    \/ Timeout(1)

\* One message handled while any of its fetches may never be answered and the
\* timer of its handler may fire.
SpecTimeout == Init /\ [][NextTimeout]_vars

\* the page is a document (content.js) or a sheet (spreadsheet.js), at a path
\* that has the id of the document in it or not
InitPage ==
    /\ req = [r \in Reqs |-> Idle]
    /\ cachedConfig = NoConfig
    /\ syncStore = Config(TRUE, NoStr, NoStr, NoStr, NoStr)
    /\ changePending = FALSE
    /\ localStore = [k \in Keys |-> ""]
    /\ nextColl = 0
    /\ docs = Remote0
    /\ nextDoc = 0
    /\ received = 0
    /\ changes = 0
    /\ fresh = FALSE
    /\ \E script \in {"content", "spreadsheet"}, pathOk \in BOOLEAN :
          page = [Page(script) EXCEPT !.pathOk = pathOk]

\* what the background can answer to an export message
PageResponses ==
    {Resp(TRUE, NoStr, <<"http://h", "/doc/", "d1">>, "d1", TRUE, FALSE),
     Resp(TRUE, NoStr, NoStr, "d1", TRUE, FALSE),
     Resp(FALSE, <<"Unknown error occurred">>, NoStr, "", TRUE, FALSE)}

NextPage ==
    \/ \E c \in Clicks, online \in BOOLEAN : Click(c, online)
    \/ \E c \in Clicks, ok \in BOOLEAN : ExportFetched(c, ok)
    \/ \E c \in Clicks, ok \in BOOLEAN : TextRead(c, ok)
    \/ \E c \in Clicks, answered \in BOOLEAN, response \in PageResponses :
          Responded(c, answered, response)
    \/ \E c \in Clicks : GlobalTimeout(c)

\* The clicks on the button of one page, the exports they start and the timers
\* of content.js, in any order the event loop allows.
SpecPage == InitPage /\ [][NextPage]_vars

\* the export message of the page
PageMessage(script) ==
    IF script = "content"
    THEN Msg("saveGoogleDoc", <<"T">>, <<"C">>, NoStr, Header, "top", "")
    ELSE Msg("importGoogleSheet", <<"T">>, NoStr, <<"C">>, Header, "top", "")

InitExport ==
    /\ req = [r \in Reqs |-> Idle]
    /\ cachedConfig = NoConfig
    /\ syncStore \in SyncValues
    /\ changePending = FALSE
    /\ localStore \in {[k \in Keys |-> ""], [k \in Keys |-> OldColl]}
    /\ nextColl = 0
    /\ docs = Remote0
    /\ nextDoc = 0
    /\ received = 0
    /\ changes = 0
    /\ fresh = FALSE
    /\ page \in {Page("content"), Page("spreadsheet")}

NextExport ==
    \/ \E online \in BOOLEAN : Click(1, online)
    \/ \E ok \in BOOLEAN : ExportFetched(1, ok)
    \/ \E ok \in BOOLEAN : TextRead(1, ok)
    \/ page.run[1] = "message" /\ Receive(1, PageMessage(page.script), 1)
    \/ ConfigRead(1)
    \/ LocalRead(1)
    \/ LocalWrite(1)
    \/ \E o \in MessageOutcomes :
          /\ (o.done /\ o.status # 200) => req[1].call.op # "createCollection"
          /\ Fetch(1, o)
    \/ req[1].resp # <<>> /\ Responded(1, TRUE, req[1].resp[1])
    \/ Responded(1, FALSE, Resp(FALSE, NoStr, NoStr, "", FALSE, FALSE))
    \/ GlobalTimeout(1)

\* One click on the button of a page, the export message it sends, the
\* background that handles the message, and the answer the page gets.
SpecExport == InitExport /\ [][NextExport]_vars

----------------------------------------------------------------------------
(* Properties of the message listener (Spec) *)

\* C1: whatever the storage and the remote calls of a message do, no message is
\* ever answered twice, and a message whose calls have all returned or thrown
\* has been answered exactly once.
C1_ExactlyOneResponse ==
    \A r \in Reqs :
        /\ Len(req[r].resp) <= 1
        /\ req[r].pc = "done" => Len(req[r].resp) = 1

\* a message answered after its collection was created, its document imported
\* and renamed, and the update of the header failed
C1_Witness ==
    /\ req[1].pc = "done"
    /\ req[1].stage = "hdrUpd"
    /\ req[1].results = <<"ok", "ok", "ok", "ok", "fail">>
    /\ ~req[1].storageOk
    /\ Len(req[1].resp) = 1
    /\ ~req[1].resp[1].success

\* the id of the document the remote created last
LastDoc == IF nextDoc > 0 THEN DocIds[nextDoc] ELSE ""

\* the response to a successful export of that document
Exported ==
    Resp(TRUE, NoStr, cachedConfig.outlineUrl \o <<"/doc/", LastDoc>>, LastDoc, TRUE, FALSE)

\* a saveGoogleDoc request without header has ended: a configuration is in
\* place, every remote call was accepted and every storage call succeeded
SavedUndisturbed(q) ==
    /\ q.pc = "done"
    /\ q.msg.action = "saveGoogleDoc"
    /\ q.msg.headerMarkdown = NoStr
    /\ cachedConfig.set
    /\ q.remoteOk
    /\ q.storageOk

\* C7 as stated: with a valid configuration with normalized base URL B and a
\* remote that accepts every call and answers the creation with id D, a
\* saveGoogleDoc request with non-empty title and content and no header is
\* answered {success: true, documentId: D, url: B + "/doc/" + D, timestamp}.
C7_SaveSucceeds ==
    \A r \in Reqs :
        LET q == req[r]
        IN  (SavedUndisturbed(q) /\ q.msg.title # NoStr /\ q.msg.content # NoStr) =>
                q.resp = <<Exported>>

\* C7 amended: the same for a request whose title is non-empty and at most
\* MAX_TITLE_LEN characters long and whose content is not blank.
C7_ValidSaveSucceeds ==
    \A r \in Reqs :
        LET q == req[r]
        IN  (/\ SavedUndisturbed(q)
             /\ q.msg.title # NoStr
             /\ StrLen(q.msg.title) <= MAX_TITLE_LEN
             /\ Trim(q.msg.content) # NoStr) =>
                q.resp = <<Exported>>

\* a document with a title of 255 characters is saved under a base URL that
\* was stored with a trailing slash
C7_Witness ==
    /\ SavedUndisturbed(req[1])
    /\ req[1].msg.title = <<"t255">>
    /\ syncStore.outlineUrl = <<"https://h", "/">>
    /\ req[1].resp = <<Resp(TRUE, NoStr, <<"https://h", "/doc/", "d1">>, "d1", TRUE, FALSE)>>

\* the fields of a saveGoogleDoc request that validation objects to
Offending(msg) ==
    {f \in {"title", "content"} :
        \/ f = "title" /\ (msg.title = NoStr \/ StrLen(msg.title) > MAX_TITLE_LEN)
        \/ f = "content" /\ Trim(msg.content) = NoStr}

\* the errors that name a field
Naming(f) ==
    IF f = "title"
    THEN {<<"Missing required field: title">>,
          <<"Title exceeds maximum length (255 characters)">>}
    ELSE {<<"Missing required field: content">>, <<"Empty document content">>}

\* no remote call and no local-storage access has been made for q
NothingTouched(q) ==
    /\ q.log = <<>>
    /\ q.pc # "fetch"
    /\ q.nFetch = 0
    /\ q.inv = NoInv
    /\ q.touched \subseteq {<<"get", "sync">>}

\* C8 as stated: a saveGoogleDoc request with an empty title, an empty or blank
\* content or a title of more than 255 characters is answered with a failure
\* that names the offending field, and no remote call and no local-storage
\* write is made for it.  (The storage calls are taken to succeed.)
C8_InvalidSaveNamesField ==
    \A r \in Reqs :
        LET q == req[r]
        IN  (q.msg.action = "saveGoogleDoc" /\ Offending(q.msg) # {}) =>
                /\ NothingTouched(q)
                /\ q.pc = "done" =>
                       /\ Len(q.resp) = 1
                       /\ ~q.resp[1].success
                       /\ q.storageOk =>
                              \E f \in Offending(q.msg) : q.resp[1].error \in Naming(f)

\* C8 amended: such a request is answered with a failure, and no remote call
\* and no local-storage access is made for it; the failure names an offending
\* field when a valid configuration is in place, and is the configuration
\* error otherwise.
C8_InvalidSaveFails ==
    \A r \in Reqs :
        LET q == req[r]
        IN  (q.msg.action = "saveGoogleDoc" /\ Offending(q.msg) # {}) =>
                /\ NothingTouched(q)
                /\ q.pc = "done" =>
                       /\ Len(q.resp) = 1
                       /\ ~q.resp[1].success
                       /\ q.resp[1].url = NoStr /\ q.resp[1].documentId = ""
                       /\ cachedConfig.set =>
                              \E f \in Offending(q.msg) : q.resp[1].error \in Naming(f)
                       /\ ~cachedConfig.set =>
                              \A f \in Offending(q.msg) : q.resp[1].error \notin Naming(f)

\* a request with a title of 256 characters is refused for its title
C8_Witness ==
    /\ req[1].pc = "done"
    /\ req[1].msg.action = "saveGoogleDoc"
    /\ req[1].msg.title = <<"t256">>
    /\ req[1].msg.content = <<"C">>
    /\ cachedConfig.set
    /\ NothingTouched(req[1])
    /\ req[1].resp[1].error = <<"Title exceeds maximum length (255 characters)">>

\* C13: every response has the unified shape: a failure has success = false, an
\* error message and a timestamp, at whatever stage it is produced; a success,
\* for each of the three actions, has success = true, url, documentId and a
\* timestamp.
C13_UnifiedResponseShape ==
    \A r \in Reqs :
        \A i \in 1..Len(req[r].resp) :
            LET resp == req[r].resp[i]
            IN  /\ resp.timestamp
                /\ resp.success => (resp.url # NoStr /\ resp.documentId # "")
                /\ ~resp.success => resp.error # NoStr

\* the message of q names an action that is not one of the three
UnknownAction(q) == q.msg.action # "" /\ q.msg.action \notin Actions

\* C14 as stated: a request whose action is not one of the three is answered
\* with a failure that mentions the unknown action, in every state of the
\* stored configuration, and causes no remote call and no access to the stored
\* collection ids.  (The storage calls are taken to succeed.)
C14_UnknownActionAlwaysNamed ==
    \A r \in Reqs :
        LET q == req[r]
        IN  UnknownAction(q) =>
                /\ NothingTouched(q)
                /\ q.pc = "done" =>
                       /\ Len(q.resp) = 1
                       /\ ~q.resp[1].success
                       /\ q.storageOk => q.resp[1].error = <<"Unknown action">>

\* C14 amended: such a request is answered with a failure and causes no remote
\* call and no access to the stored collection ids; the failure mentions the
\* unknown action when a valid configuration is in place, and is the
\* configuration error otherwise.
C14_UnknownActionFails ==
    \A r \in Reqs :
        LET q == req[r]
        IN  UnknownAction(q) =>
                /\ NothingTouched(q)
                /\ q.pc = "done" =>
                       /\ Len(q.resp) = 1
                       /\ ~q.resp[1].success
                       /\ cachedConfig.set <=> q.resp[1].error = <<"Unknown action">>

\* an unknown action is refused under a valid configuration
C14_Witness ==
    /\ req[1].pc = "done"
    /\ req[1].msg.action = "frobulate"
    /\ cachedConfig.set
    /\ req[1].resp[1].error = <<"Unknown action">>
    /\ NothingTouched(req[1])

\* the calls of q that created or imported a document
Creations(q) ==
    {i \in 1..Len(q.results) :
        q.log[i].op \in {"createDocument", "importDocument"} /\ q.results[i] = "ok"}

\* the document of q was created and a later call of the request has failed
FailedAfterCreation(q) ==
    /\ q.pc = "done"
    /\ \E i \in Creations(q) : i < Len(q.results)
    /\ q.results[Len(q.results)] = "fail"

\* C12: when the document was created or imported and a later step of the
\* request (rename or header injection) fails, the response is a pure failure,
\* success = false with that step's error and neither url nor documentId; no
\* remote call follows the failed one, and the created document remains.
C12_PartialProgressIsPureFailure ==
    \A r \in Reqs :
        LET q == req[r]
        IN  FailedAfterCreation(q) =>
                /\ Len(q.resp) = 1
                /\ ~q.resp[1].success
                /\ q.resp[1].error = q.failure.msg
                /\ q.failure.msg # NoStr
                /\ q.resp[1].url = NoStr
                /\ q.resp[1].documentId = ""
                /\ Len(q.log) = Len(q.results)
                /\ q.log[Len(q.log)].op \in {"getDocument", "updateDocument"}
                /\ LastDoc \in DOMAIN docs

\* the imported document exists, its rename has failed and the request was
\* answered with the error of the update
C12_Witness ==
    /\ FailedAfterCreation(req[1])
    /\ req[1].msg.action = "importGoogleSheet"
    /\ req[1].results = <<"ok", "ok", "fail">>
    /\ req[1].resp[1].error[1] = "Failed to update document: "
    /\ req[1].resp[1].url = NoStr
    /\ "d1" \in DOMAIN docs

----------------------------------------------------------------------------
(* Properties of appendHeaderToDocument (Spec) *)

\* the API calls of the appendHeaderToDocument call of q
HeaderCalls(q) == SubSeq(q.log, q.hdr.at + 1, Len(q.log))

\* whether its getDocument has ended, and how
HeaderFetch(q) == IF Len(q.results) > q.hdr.at THEN q.results[q.hdr.at + 1] ELSE "pending"

\* the body and the title appendHeaderToDocument takes from what it fetched
FetchedText(q) == IF q.fetched.hasData THEN q.fetched.text ELSE NoStr
FetchedTitle(q) == IF q.fetched.hasData THEN q.fetched.title ELSE NoStr

\* C9: with position "top" appendHeaderToDocument first fetches the document
\* and then issues exactly one update, whose text is the header, "\n\n" and
\* the fetched body, with append = false and the fetched title; it issues no
\* update when the fetch fails.
C9_TopPrependsToFetchedBody ==
    \A r \in Reqs :
        LET q == req[r]
            hc == HeaderCalls(q)
        IN  q.hdr.position = "top" =>
                /\ Len(hc) \in {1, 2}
                /\ hc[1] = Call("getDocument", q.hdr.docId, "", NoStr, NoStr, NoStr, FALSE)
                /\ Len(hc) = 2 <=> HeaderFetch(q) = "ok"
                /\ Len(hc) = 2 =>
                       hc[2] = Call("updateDocument", q.hdr.docId, "", NoStr, FetchedTitle(q),
                                    q.hdr.header \o <<"\n\n">> \o FetchedText(q), FALSE)

\* the header is put before the body of the stored document
C9_Witness ==
    /\ req[1].pc = "done"
    /\ req[1].msg.action = "appendHeader"
    /\ req[1].hdr.position = "top"
    /\ req[1].resp[1].success
    /\ HeaderCalls(req[1])[2] =
          Call("updateDocument", OldDoc, "", NoStr, <<"T0">>, <<"H", "\n\n", "B0">>, FALSE)

\* what the claims about position "bottom" say of the update
BottomUpdate(q, call) ==
    /\ call.op = "updateDocument"
    /\ call.id = q.hdr.docId
    /\ call.append
    /\ call.text = q.hdr.header

\* C10 as stated: with position "bottom" appendHeaderToDocument issues exactly
\* one update, with append = true and the header alone as text.
C10_BottomAppendsHeader ==
    \A r \in Reqs :
        LET q == req[r]
            hc == HeaderCalls(q)
        IN  (q.hdr.position = "bottom" /\ q.pc = "done") =>
                /\ Len(hc) = 2
                /\ BottomUpdate(q, hc[2])

\* C10 amended: with position "bottom" appendHeaderToDocument fetches the
\* document first; when that fetch succeeds it issues exactly one update, with
\* append = true and the header alone as text, and when it fails it issues none.
C10_BottomAppendsAfterFetch ==
    \A r \in Reqs :
        LET q == req[r]
            hc == HeaderCalls(q)
        IN  q.hdr.position = "bottom" =>
                /\ Len(hc) \in {1, 2}
                /\ hc[1] = Call("getDocument", q.hdr.docId, "", NoStr, NoStr, NoStr, FALSE)
                /\ Len(hc) = 2 <=> HeaderFetch(q) = "ok"
                /\ Len(hc) = 2 => BottomUpdate(q, hc[2])

\* the header alone is sent to be appended to the document just created
C10_Witness ==
    /\ req[1].pc = "done"
    /\ req[1].msg.action = "saveGoogleDoc"
    /\ req[1].hdr.position = "bottom"
    /\ req[1].resp[1].success
    /\ Len(HeaderCalls(req[1])) = 2
    /\ BottomUpdate(req[1], HeaderCalls(req[1])[2])
    /\ HeaderCalls(req[1])[2].text = Header

----------------------------------------------------------------------------
(* Properties of OutlineAPI._request (SpecRequest) *)

\* s has piece among its pieces
Carries(s, piece) == \E i \in 1..Len(s) : s[i] = piece

\* C5: a call with retry budget n whose every fetch is answered 500 makes
\* exactly n + 1 fetches and then fails with an error that carries the status
\* and the body of the last response.
C5_ServerErrorsExhaustBudget ==
    \A r \in Reqs :
        LET q == req[r]
        IN  (q.stage = "raw" /\ q.statuses = {500}) =>
                /\ q.nFetch <= q.retry + 1
                /\ q.pc = "done" <=> q.nFetch = q.retry + 1
                /\ q.pc = "done" =>
                       /\ q.last.end = "throw"
                       /\ Carries(q.last.err.msg, StatusText(q.last.status))
                       /\ Carries(q.last.err.msg, q.last.body)

\* a call with budget 2 has failed after three fetches answered 500
C5_Witness ==
    /\ req[1].stage = "raw"
    /\ req[1].retry = 2
    /\ req[1].statuses = {500}
    /\ req[1].pc = "done"
    /\ req[1].nFetch = 3
    /\ req[1].last.end = "throw"

\* C6: a response with status 401, 403 or 404 is never retried: whatever the
\* budget and whichever the attempt, no fetch follows it and the call fails at
\* once, with an authentication error for 401 and 403 and a not-found error
\* for 404.
C6_AuthAndNotFoundEndTheCall ==
    \A r \in Reqs :
        LET q == req[r]
        IN  (q.stage = "raw" /\ q.nFetch > 0 /\ q.last.status \in {401, 403, 404}) =>
                /\ q.pc = "done"
                /\ q.last.end = "throw"
                /\ q.last.status \in {401, 403} =>
                       /\ Includes(q.last.err.msg, "Authentication error")
                       /\ Carries(q.last.err.msg, StatusText(q.last.status))
                /\ q.last.status = 404 => Includes(q.last.err.msg, "Resource not found")

\* a 403 on the second attempt ends a call that had two more attempts left
C6_Witness ==
    /\ req[1].stage = "raw"
    /\ req[1].retry = 3
    /\ req[1].nFetch = 2
    /\ req[1].last.status = 403
    /\ req[1].pc = "done"
    /\ req[1].last.end = "throw"

\* every fetch of the call so far, but possibly the last, ended with a 429 or
\* a failure of the network
Transient(class) == class \in {"rate", "net"}

TransientSoFar(q) ==
    /\ q.stage = "raw"
    /\ q.classes # <<>>
    /\ \A i \in 1..(Len(q.classes) - 1) : Transient(q.classes[i])

\* C22: a call with retry budget n retries a 429 and a failure of the network.
\* While only such failures have occurred, the call fetches again as long as
\* fewer than n + 1 fetches were made; when the fetch after them succeeds the
\* call returns its body and fetches no more; after n + 1 such failures in a row
\* the call has failed, with one error.
C22_TransientFailuresAreRetried ==
    \A r \in Reqs :
        LET q == req[r]
            k == Len(q.classes)
        IN  TransientSoFar(q) =>
                /\ k = q.nFetch
                /\ k <= q.retry + 1
                /\ (Transient(q.classes[k]) /\ k <= q.retry) => q.pc = "fetch"
                /\ (Transient(q.classes[k]) /\ k = q.retry + 1) =>
                       /\ q.pc = "done"
                       /\ q.last.end = "throw"
                       /\ q.last.err # NoErr
                /\ q.classes[k] = "ok" =>
                       /\ q.pc = "done"
                       /\ q.last.end = "return"
                       /\ q.last.status = 200

\* a 429 and a failure of the network, then a success on the third attempt of
\* a call with budget 3
C22_Witness ==
    /\ req[1].stage = "raw"
    /\ req[1].retry = 3
    /\ req[1].classes = <<"rate", "net", "ok">>
    /\ req[1].pc = "done"
    /\ req[1].last.end = "return"

\* C23: when a fetch of a call is aborted, the call makes no further fetch,
\* whatever is left of its retry budget, and fails with the cancellation error,
\* which is none of the errors a failure of the network or of the server ends
\* with.
C23_AbortEndsTheCall ==
    \A r \in Reqs :
        LET q == req[r]
        IN  (q.stage = "raw" /\ \E i \in 1..Len(q.classes) : q.classes[i] = "abort") =>
                /\ q.classes[Len(q.classes)] = "abort"
                /\ \A i \in 1..(Len(q.classes) - 1) : q.classes[i] # "abort"
                /\ q.pc = "done"
                /\ q.nFetch = Len(q.classes)
                /\ q.last.end = "throw"
                /\ q.last.err = Err("Error", <<"Request cancelled">>)
                /\ ~Includes(q.last.err.msg, "Network error")
                /\ ~Includes(q.last.err.msg, "Outline API error")
                /\ ~Includes(q.last.err.msg, "API error")

\* the first fetch of a call with budget 3 is aborted
C23_Witness ==
    /\ req[1].stage = "raw"
    /\ req[1].retry = 3
    /\ req[1].classes = <<"abort">>
    /\ req[1].pc = "done"
    /\ req[1].last.err.msg = <<"Request cancelled">>

----------------------------------------------------------------------------
(* Properties of getOrCreateCollection (SpecResolve) *)

\* C2: when an id is stored under storageKey and getCollection succeeds for it,
\* possibly after failed verifications that were retried, the invocation never
\* calls createCollection, returns the stored id and does not write local storage.
C2_VerifiedIdIsReused ==
    \A r \in Reqs :
        LET q == req[r]
        IN  (q.inv.stored # "" /\ q.inv.verify.ok) =>
                /\ q.inv.creates = 0
                /\ q.inv.writes = <<>>
                /\ <<"set", q.key>> \notin q.touched
                /\ localStore[q.key] = q.inv.stored
                /\ q.pc = "done"
                /\ q.last.end = "return"
                /\ q.collectionId = q.inv.stored

\* the stored id is returned after two failed verifications and a successful one
C2_Witness ==
    /\ req[1].pc = "done"
    /\ req[1].inv.stored = OldColl
    /\ req[1].inv.verify.ok
    /\ req[1].inv.gets = 3
    /\ req[1].last.end = "return"
    /\ req[1].collectionId = OldColl

\* the verification of a stored id has ended with a 404
VerificationFailed404(q) ==
    q.inv.stored # "" /\ q.inv.gets > 0 /\ ~q.inv.verify.ok /\ q.inv.verify.status = 404

VerificationFailed(q) ==
    /\ q.inv.stored # ""
    /\ q.inv.gets > 0
    /\ ~q.inv.verify.ok
    /\ q.stage # "verify" \/ q.pc = "done"

\* C16: whenever the verification of a stored id has ultimately failed, whatever
\* the failure (a 404, a deleted or archived collection, an authentication
\* error, a server or network error that lasted through the verification
\* retries), createCollection has been called; the invocation never returns the
\* stored id it could not verify and never fails without a creation attempt.
C16_FailedVerificationCreates ==
    \A r \in Reqs :
        LET q == req[r]
        IN  VerificationFailed(q) =>
                /\ q.inv.creates >= 1
                /\ (q.pc = "done" /\ q.last.end = "return") =>
                       /\ q.collectionId # q.inv.stored
                       /\ q.inv.writes # <<>>
                /\ (q.pc = "done" /\ q.last.end = "throw") => q.inv.fails >= 1

\* a server error has lasted through every verification attempt and the
\* invocation has returned the id of a collection it created
C16_Witness ==
    /\ req[1].pc = "done"
    /\ VerificationFailed(req[1])
    /\ req[1].inv.verify.status = 500
    /\ req[1].inv.gets = MAX_RETRIES + 1
    /\ req[1].inv.creates = 1
    /\ req[1].last.end = "return"
    /\ req[1].collectionId = CollIds[1]

\* the last getCollection call for the stored id was answered 2xx with a record
\* that is marked deleted or archived
AnsweredGone(q) ==
    /\ q.inv.stored # ""
    /\ q.inv.gets > 0
    /\ q.inv.verify.status = 200
    /\ q.inv.verify.shape \in {"deleted", "archived"}

\* C17 as stated: a 2xx answer with a deleted or archived record makes
\* getCollection fail, and the invocation has then called getCollection exactly
\* once for the stored id and goes on to create a collection.
C17_GoneVerifiedOnce ==
    \A r \in Reqs :
        LET q == req[r]
        IN  AnsweredGone(q) =>
                /\ ~q.inv.verify.ok
                /\ q.inv.gets = 1
                /\ q.inv.creates >= 1

\* C17 amended: a 2xx answer with a deleted or archived record makes
\* getCollection fail, and that call is the last getCollection call of the
\* invocation: it is not retried and creation follows at once.  It is the only
\* call when it is the first answer; the calls before it, at most MAX_RETRIES,
\* are those that failed with an error that is retried.
C17_GoneEndsVerification ==
    \A r \in Reqs :
        LET q == req[r]
        IN  AnsweredGone(q) =>
                /\ ~q.inv.verify.ok
                /\ q.stage # "verify"
                /\ q.inv.gets = q.inv.retried + 1
                /\ q.inv.retried <= MAX_RETRIES
                /\ q.inv.creates >= 1

\* an archived collection: one getCollection call, then the creation
C17_Witness ==
    /\ req[1].pc = "done"
    /\ AnsweredGone(req[1])
    /\ req[1].inv.verify.shape = "archived"
    /\ req[1].inv.gets = 1
    /\ req[1].inv.creates = 1
    /\ req[1].last.end = "return"
    /\ req[1].collectionId = CollIds[1]

----------------------------------------------------------------------------
(* Properties of concurrent invocations of getOrCreateCollection (SpecRace) *)

\* the last id an invocation passed to setLocalStorage
LastWritten(q) == q.inv.writes[Len(q.inv.writes)]

\* r issues a setLocalStorage in this step, and the call succeeds
Writes(r) ==
    /\ Len(req'[r].inv.writes) = Len(req[r].inv.writes) + 1
    /\ req'[r].ioOk

\* C18: invocations for the same key do not exclude one another.  An invocation
\* that returns after creating returns the id of the collection it created
\* itself, which no other invocation returns after creating; every successful
\* setLocalStorage replaces the id under the key whatever another invocation
\* has written, and nothing else changes it, so that the id persisted in the
\* end is the one of the last setLocalStorage.
C18_LastWriteWins ==
    /\ [](\A r \in Reqs :
            LET q == req[r]
            IN  (q.pc = "done" /\ q.last.end = "return" /\ q.inv.creates > 0) =>
                    /\ q.inv.writes # <<>>
                    /\ q.collectionId = LastWritten(q)
                    /\ \A x \in Reqs \ {r} :
                          (req[x].pc = "done" /\ req[x].last.end = "return"
                              /\ req[x].inv.creates > 0) => req[x].collectionId # q.collectionId)
    /\ [][/\ \A r \in Reqs :
               Writes(r) => localStore'[req[r].key] = LastWritten(req'[r])
          /\ localStore' # localStore => \E r \in Reqs : Writes(r)]_vars

\* two invocations found the same stale id, each created a collection and
\* returned its own; the id persisted is the one of the later write, and the
\* first invocation goes on with an id that is no longer stored
C18_Witness ==
    /\ \A r \in {1, 2} : /\ req[r].pc = "done"
                         /\ req[r].last.end = "return"
                         /\ req[r].inv.stored = OldColl
                         /\ req[r].inv.creates = 1
                         /\ req[r].key = "collectionId"
    /\ req[1].collectionId = CollIds[1]
    /\ req[2].collectionId = CollIds[2]
    /\ localStore["collectionId"] = CollIds[2]

----------------------------------------------------------------------------
(* Properties of the configuration cache (SpecSession) *)

\* C4: the first export request received after a change notification works
\* with the configuration now in the synced store, not with one cached before,
\* and its getLocalStorage finds no collection id: none resolved under the old
\* configuration is reused.  (Stated of requests after which the configuration
\* has not changed again.)
C4_ChangeInvalidates ==
    \A r \in Reqs :
        LET q == req[r]
        IN  (/\ q.fresh
             /\ q.epoch = changes
             /\ q.msg.action \in {"saveGoogleDoc", "importGoogleSheet"}) =>
                /\ q.cfg.set => q.cfg = LoadedConfig(syncStore)
                /\ (q.pc = "locRead" /\ q.ioOk) => q.ioId = ""

----------------------------------------------------------------------------
(* Properties of an unusable stored configuration (SpecSession) *)

\* a stored configuration that cannot be used: the URL or the token is empty,
\* the URL is not an absolute http(s) URL, or the trimmed token is shorter than
\* ten characters
InvalidStored(s) ==
    \/ s.outlineUrl = NoStr
    \/ s.apiToken = NoStr
    \/ Protocol(s.outlineUrl) \notin {"http:", "https:"}
    \/ StrLen(Trim(s.apiToken)) < 10

ConfigErrors ==
    {<<"Outline settings not configured. Please update options.">>,
     <<"Invalid Outline URL format. Please check your settings.">>,
     <<"Invalid API token format. Please check your settings.">>}

\* C15: while the synced store holds an unusable configuration (and nothing
\* has changed it), every request with an action, the first and the next one
\* alike, reads the synced store, is answered with a configuration-error
\* failure (the storage error when the read itself fails), never reaches a
\* handler, makes no remote call and touches no stored collection id, and the
\* cache stays empty.
C15_InvalidConfigFailsFast ==
    \A r \in Reqs :
        LET q == req[r]
        IN  (/\ changes = 0
             /\ InvalidStored(syncStore)
             /\ q.pc # "idle"
             /\ q.msg.action # "") =>
                /\ cachedConfig = NoConfig
                /\ <<"get", "sync">> \in q.touched
                /\ ~q.cfg.set
                /\ q.stage = ""
                /\ NothingTouched(q)
                /\ q.pc \in {"cfgRead", "done"}
                /\ q.pc = "done" =>
                      /\ Len(q.resp) = 1
                      /\ ~q.resp[1].success
                      /\ q.resp[1].url = NoStr
                      /\ q.resp[1].documentId = ""
                      /\ q.storageOk => q.resp[1].error \in ConfigErrors

\* a second request in a row answered with the token-format error
C15_Witness ==
    /\ changes = 0
    /\ received = 2
    /\ req[1].pc = "done"
    /\ req[1].msg.action = "saveGoogleDoc"
    /\ syncStore.apiToken = <<" ", "k9chars">>
    /\ req[1].resp[1].error = <<"Invalid API token format. Please check your settings.">>
    /\ <<"get", "sync">> \in req[1].touched
    /\ cachedConfig = NoConfig

----------------------------------------------------------------------------
(* Properties of the order of the remote operations (Spec) *)

\* the steps of an export request: collection, document, rename, header
StepOf(stage) ==
    CASE stage \in {"verify", "create"} -> 1
      [] stage = "doc" -> 2
      [] stage \in {"renameGet", "renameUpd"} -> 3
      [] stage \in {"hdrGet", "hdrUpd"} -> 4
      [] OTHER -> 0

ExportRequest(q) == q.msg.action \in {"saveGoogleDoc", "importGoogleSheet"}

\* C19: the remote operations of one export request are strictly sequential,
\* in the order collection, create or import, rename, header.  At any time at
\* most one call of the handler is not yet completed, and all the calls before
\* it have succeeded; no document call is made while the collection is being
\* resolved; the step of a request never goes back; and a new call is issued
\* only when the call before it has completed successfully (the write of the
\* new collection id included).
C19_StrictlySequential ==
    /\ [](\A r \in Reqs :
            LET q == req[r]
            IN  ExportRequest(q) =>
                    /\ Len(q.log) - Len(q.results) \in {0, 1}
                    /\ Len(q.log) > Len(q.results) => q.pc = "fetch" /\ q.call = q.log[Len(q.log)]
                    /\ \A i \in 1..(Len(q.log) - 1) : q.results[i] = "ok"
                    /\ StepOf(q.stage) = 1 => q.log = <<>>
                    /\ q.log # <<>> =>
                          /\ q.log[1].op \in {"createDocument", "importDocument"}
                          /\ q.log[1].coll = q.collectionId
                          /\ \A i \in 2..Len(q.log) :
                                q.log[i].op \in {"getDocument", "updateDocument"})
    /\ [][\A r \in Reqs :
            LET q == req[r]
                n == req'[r]
            IN  (ExportRequest(q) /\ q.pc \notin {"idle", "done"}) =>
                    /\ n.pc # "done" => StepOf(n.stage) >= StepOf(q.stage)
                    /\ Len(n.log) > Len(q.log) =>
                          /\ Len(n.log) = Len(q.log) + 1
                          /\ Len(n.results) = Len(q.log)
                          /\ \A i \in 1..Len(q.log) : n.results[i] = "ok"
                          /\ q.pc = "locWrite" => q.ioOk
                          /\ StepOf(n.stage) = StepOf(q.stage)
                                => (q.stage = "renameGet" /\ n.stage = "renameUpd")
                                   \/ (q.stage = "hdrGet" /\ n.stage = "hdrUpd")]_vars

\* an import with a title and a header has gone through all four steps
C19_Witness ==
    /\ req[1].pc = "done"
    /\ req[1].msg.action = "importGoogleSheet"
    /\ req[1].stage = "hdrUpd"
    /\ Len(req[1].log) = 5
    /\ req[1].results = <<"ok", "ok", "ok", "ok", "ok">>
    /\ req[1].resp[1].success
    /\ <<"set", "collectionId_sheet">> \in req[1].touched

----------------------------------------------------------------------------
(* Properties of the rename of an imported sheet (Spec) *)

TitledImport(q) == q.msg.action = "importGoogleSheet" /\ q.msg.title # NoStr

\* the body the import gave the document: the table made of the file
ImportedBody(q) == <<"<table>">> \o q.msg.fileContent

\* C20: an importGoogleSheet request with a title, once the import has given
\* the document id, fetches the imported document and issues one update with
\* title = request.title, text = the fetched body and append = false, before any
\* header injection; and when it has succeeded with a header at the top, both
\* fetches having been answered with the document, the document has the title
\* request.title and the body header, "\n\n", imported body.
C20_RenameKeepsBody ==
    \A r \in Reqs :
        LET q == req[r]
        IN  TitledImport(q) =>
                /\ q.docId # "" =>
                      /\ q.results[1] = "ok"
                      /\ Len(q.log) >= 2
                      /\ q.log[2] = Call("getDocument", q.docId, "", NoStr, NoStr, NoStr, FALSE)
                /\ Len(q.log) >= 3 =>
                      /\ q.results[2] = "ok"
                      /\ q.log[3].op = "updateDocument"
                      /\ q.log[3].id = q.docId
                      /\ q.log[3].title = q.msg.title
                      /\ ~q.log[3].append
                      /\ q.stage = "renameUpd" =>
                            /\ q.log[3].text = FetchedText(q)
                            /\ q.gotDocs => q.log[3].text = ImportedBody(q)
                /\ q.hdr.docId # "" => q.hdr.at = 3 /\ q.results[3] = "ok"
                /\ \A i \in 4..Len(q.log) : q.hdr.docId # "" /\ i > q.hdr.at
                /\ (/\ q.pc = "done" /\ q.resp[1].success
                    /\ q.hdr.position = "top" /\ q.gotDocs) =>
                      docs[q.docId] = [title |-> q.msg.title,
                                       text |-> q.msg.headerMarkdown \o <<"\n\n">>
                                                \o ImportedBody(q)]

\* a titled import with a header at the top has succeeded
C20_Witness ==
    /\ req[1].pc = "done"
    /\ TitledImport(req[1])
    /\ req[1].resp[1].success
    /\ req[1].hdr.position = "top"
    /\ req[1].gotDocs
    /\ Len(req[1].log) = 5
    /\ docs[req[1].docId] = [title |-> <<"T">>, text |-> <<"H", "\n\n", "<table>", "C">>]

----------------------------------------------------------------------------
(* Properties of the handlers' timeout (SpecTimeout) *)

\* C11: when a remote call of a handler never completes and the handler's timer
\* has fired, the call in flight is cancelled: the request has been answered
\* with a failure, or the cancelled fetch is about to end; the request is not
\* left unanswered with nothing more to happen.
C11_TimeoutAnswersHungCall ==
    \A r \in Reqs :
        (req[r].hung /\ req[r].aborted) =>
            \/ /\ req[r].pc = "done"
               /\ Len(req[r].resp) = 1
               /\ ~req[r].resp[1].success
            \/ ENABLED (\E o \in FetchOutcomes : Fetch(r, o))

----------------------------------------------------------------------------
(* Properties of repeated header injection (SpecSession) *)

\* what one injection of header at position makes of a document
InjectedOnce(doc, header, position) ==
    [title |-> doc.title,
     text |-> IF position = "top" THEN header \o <<"\n\n">> \o doc.text
              ELSE doc.text \o header]

\* C21: header injection is idempotent.  In a session whose appendHeader
\* requests all carry the same document, header and position, the document is
\* at any time what it was at the start or what one injection makes of it: a
\* second injection with the same arguments changes nothing.
C21_HeaderInjectionIdempotent ==
    docs[OldDoc] \in {Remote0[OldDoc], InjectedOnce(Remote0[OldDoc], Header, "top")}

----------------------------------------------------------------------------
(* Properties of the cached base URL (Spec) *)

EndsWithSlash(url) == url # NoStr /\ url[Len(url)] = "/"

\* C24: the base URL in the configuration cache never ends with "/", whatever
\* valid URL is stored, and the url of a successful response never has "//"
\* before "doc".
C24_BaseUrlWithoutTrailingSlash ==
    /\ cachedConfig.set => ~EndsWithSlash(cachedConfig.outlineUrl)
    /\ \A r \in Reqs :
          LET url == IF req[r].resp # <<>> THEN req[r].resp[1].url ELSE NoStr
          IN  \A i \in 1..(Len(url) - 1) : ~(url[i] = "/" /\ url[i + 1] = "/doc/")

----------------------------------------------------------------------------
(* Properties of the reuse of the cached configuration (SpecSession) *)

\* C25: while a valid configuration is cached, a request that arrives does not
\* read the synced store and works with the cached values; the cache is emptied
\* by a change notification only and its values do not change before that.  So
\* requests that follow one another read the store at most once, to fill the
\* cache, between two notifications.
C25_CachedConfigIsReused ==
    [][/\ (cachedConfig.set /\ received' = received + 1) =>
              \A r \in Reqs :
                  (req'[r] # req[r] /\ req'[r].msg.action # "") =>
                      /\ <<"get", "sync">> \notin req'[r].touched
                      /\ req'[r].pc # "cfgRead"
                      /\ req'[r].cfg = cachedConfig
       /\ (cachedConfig.set /\ cachedConfig' # cachedConfig) =>
              /\ changePending /\ ~changePending'
              /\ cachedConfig' = NoConfig]_vars

\* the second request of a session has ended well without reading the store:
\* the first one had filled the cache
C25_Witness ==
    /\ received = 2
    /\ changes = 0
    /\ cachedConfig.set
    /\ req[1].pc = "done"
    /\ req[1].msg.action = "saveGoogleDoc"
    /\ req[1].resp[1].success
    /\ req[1].cfg = cachedConfig
    /\ <<"get", "sync">> \notin req[1].touched

----------------------------------------------------------------------------
(* Properties of what each action touches (Spec) *)

\* C26: an appendHeader request reads and writes no stored collection id and
\* calls neither getCollection nor createCollection.  Its remote calls are one
\* getDocument for the given docId and, after it, at most one updateDocument
\* for the same docId; with an empty docId or an empty headerMarkdown it makes
\* no remote call at all.
C26_AppendHeaderTouchesNoCollection ==
    \A r \in Reqs :
        LET q == req[r]
        IN  q.msg.action = "appendHeader" =>
                /\ q.touched \subseteq {<<"get", "sync">>}
                /\ q.inv = NoInv
                /\ q.key = ""
                /\ q.call.op \in {"", "getDocument", "updateDocument"}
                /\ Len(q.log) <= 2
                /\ Len(q.log) >= 1 =>
                      q.log[1] = Call("getDocument", q.msg.docId, "", NoStr, NoStr, NoStr, FALSE)
                /\ Len(q.log) = 2 =>
                      /\ q.log[2].op = "updateDocument"
                      /\ q.log[2].id = q.msg.docId
                      /\ q.results[1] = "ok"
                /\ (q.msg.docId = "" \/ q.msg.headerMarkdown = NoStr) =>
                      /\ q.log = <<>>
                      /\ q.nFetch = 0
                      /\ q.pc # "fetch"

\* an appendHeader request has succeeded with its two calls and no storage
\* access but the load of the configuration
C26_Witness ==
    /\ req[1].pc = "done"
    /\ req[1].msg.action = "appendHeader"
    /\ req[1].resp[1].success
    /\ Len(req[1].log) = 2
    /\ req[1].touched = {<<"get", "sync">>}
    /\ localStore = [k \in Keys |-> OldColl]

\* the local key and the collection name that belong to an export action, the
\* name as configured or its default
SlotOf(action) == IF action = "saveGoogleDoc" THEN "collectionId" ELSE "collectionId_sheet"

ConfiguredName(action) ==
    LET stored == IF action = "saveGoogleDoc" THEN syncStore.googleDocsCollectionName
                  ELSE syncStore.googleSheetsCollectionName
        default == IF action = "saveGoogleDoc" THEN <<"google-docs">> ELSE <<"google-sheets">>
    IN  IF Trim(stored) # NoStr THEN Trim(stored) ELSE default

\* C27: saveGoogleDoc reads and writes only the local key collectionId and
\* creates collections only under the configured name for documents;
\* importGoogleSheet reads and writes only collectionId_sheet and creates
\* collections only under the configured name for sheets; the id stored in the
\* other slot is never changed.
C27_EachActionItsOwnSlot ==
    /\ [](\A r \in Reqs :
            LET q == req[r]
            IN  ExportRequest(q) =>
                    /\ q.touched \subseteq {<<"get", "sync">>, <<"get", SlotOf(q.msg.action)>>,
                                            <<"set", SlotOf(q.msg.action)>>}
                    /\ q.key \in {"", SlotOf(q.msg.action)}
                    /\ q.call.op = "createCollection" =>
                           q.call.name = ConfiguredName(q.msg.action))
    /\ [][\A k \in Keys :
            localStore'[k] # localStore[k] =>
                \E r \in Reqs : ExportRequest(req[r]) /\ SlotOf(req[r].msg.action) = k]_vars

\* a sheet import has created its collection under the configured name and
\* stored its id; the other slot holds what it held
C27_Witness ==
    /\ req[1].pc = "done"
    /\ req[1].msg.action = "importGoogleSheet"
    /\ req[1].resp[1].success
    /\ syncStore.googleSheetsCollectionName = <<"my-sheets">>
    /\ req[1].name = <<"my-sheets">>
    /\ localStore = [collectionId |-> OldColl, collectionId_sheet |-> CollIds[1]]

----------------------------------------------------------------------------
(* Properties of the backoff sleeps (SpecBackoff) *)

\* base * 2^(k - 1) for the sleep of q, k the attempt that failed
Nominal(q) ==
    IF q.sleep.branch \in {"verify", "create"}
    THEN RESOLVER_BASE * Pow2(q.retryCount - 1)
    ELSE q.sleep.retryDelay * Pow2(q.attempts - 1)

\* C28: every backoff sleep, in _request and in the two retry loops of
\* getOrCreateCollection, lasts base * 2^(k - 1) give or take 20 percent, is not
\* negative and is not longer than 10,000 ms.
C28_BackoffWithinBounds ==
    \A r \in Reqs :
        LET q == req[r]
        IN  q.pc = "slept" =>
                /\ 5 * q.sleep.ms >= 4 * Nominal(q)
                /\ 5 * q.sleep.ms <= 6 * Nominal(q)
                /\ q.sleep.ms >= 0
                /\ q.sleep.ms <= 10000

----------------------------------------------------------------------------
(* Properties of the request headers (SpecRequest) *)

\* the methods of OutlineAPI that call _request
ApiMethods ==
    {"createCollection", "createDocument", "importDocument", "updateDocument",
     "getDocument", "getCollection"}

\* C29: every request _request sends has an Authorization header, the caller's
\* if the caller gave one and the bearer token otherwise; the JSON content type
\* is added only when the body is not form data and the caller gave no content
\* type; so the import request has no content type set by the client and every
\* JSON call of the API has the JSON one.
C29_HeadersOfEveryRequest ==
    /\ \A r \in Reqs :
          LET q == req[r]
              supplied == q.options.headers
              sent == q.headers
          IN  q.nFetch > 0 =>
                /\ sent.Authorization # NoStr
                /\ supplied.Authorization # NoStr =>
                      sent.Authorization = supplied.Authorization
                /\ supplied.Authorization = NoStr =>
                      sent.Authorization = <<"Bearer ">> \o RawToken
                /\ sent.ContentType # supplied.ContentType =>
                      /\ q.options.body \notin {"", "form"}
                      /\ supplied.ContentType = NoStr
                      /\ sent.ContentType = <<"application/json">>
                /\ q.options = Options(NoHeaders, "json") =>
                      sent.ContentType = <<"application/json">>
                /\ q.options = Options(NoHeaders, "form") => sent.ContentType = NoStr
    /\ \A op \in ApiMethods :
          RequestHeaders(MethodOptions(op), RawToken).ContentType =
              IF op = "importDocument" THEN NoStr ELSE <<"application/json">>

\* a request with form data was sent without a content type, under the bearer
\* token of the API object
C29_Witness ==
    /\ req[1].nFetch > 0
    /\ req[1].options = Options(NoHeaders, "form")
    /\ req[1].headers = Headers(<<"Bearer ">> \o RawToken, NoStr)

----------------------------------------------------------------------------
(* Properties of a page that has been saved (SpecPage) *)

\* C30: once an export has succeeded on a page (saved is true), saved stays
\* true, no export message is sent to the background from that page any more,
\* and a click does nothing but open the stored url.
C30_SavedPageOnlyOpens ==
    [][page.saved =>
          /\ page'.saved
          /\ page'.sent = page.sent
          /\ page'.clicks # page.clicks =>
                page' = [OpenSaved(page) EXCEPT !.clicks = @ + 1]]_vars

\* the same of the sheet pages alone, where nothing ends isProcessing but the
\* end of handleClick
C30_SavedSheetOnlyOpens ==
    [][page.saved /\ page.script = "spreadsheet" =>
          /\ page'.saved
          /\ page'.sent = page.sent
          /\ page'.clicks # page.clicks =>
                page' = [OpenSaved(page) EXCEPT !.clicks = @ + 1]]_vars

\* an export message has left a document page that was saved already
C30_Late ==
    /\ page.script = "content"
    /\ page.sentWhenSaved
    /\ page.sent = 2

----------------------------------------------------------------------------
(* Properties of the label of a failed export (SpecExport) *)

\* the error of the background's answer says that _request gave up on a status
\* of the given kind: "Authentication error (" for 401 and 403, "Outline API
\* error: " for a 5xx that outlasted the retries
FailedOn(words, statuses) ==
    /\ req[1].resp # <<>>
    /\ LET error == req[1].resp[1].error
       IN  \E i \in 1..(Len(error) - 1) :
              error[i] = words /\ error[i + 1] \in {StatusText(st) : st \in statuses}

\* C31: the label shown for an export the background answered with a failure
\* tells the class of the failure: "Auth Error" when the API answered 401 or
\* 403, "Server Error" when the API kept answering 5xx.
C31_LabelTellsFailureClass ==
    page.shown # "" =>
        /\ FailedOn("Authentication error (", {401, 403}) => page.shown = "Auth Error"
        /\ FailedOn("Outline API error: ", {500}) => page.shown = "Server Error"

\* the part of it about 401 and 403
C31_AuthErrorIsLabelled ==
    page.shown # "" =>
        (FailedOn("Authentication error (", {401, 403}) => page.shown = "Auth Error")

\* a document page shows "Auth Error" for a creation answered 401
C31_Witness ==
    /\ page.script = "content"
    /\ page.shown = "Auth Error"
    /\ req[1].call.op = "createDocument"
    /\ req[1].nFetch = 1
    /\ FailedOn("Authentication error (", {401})

\* a page shows another label for a creation that was answered 500 three times
C31_ServerErrorUnlabelled ==
    /\ page.shown \in {"Error: ...", "Error"}
    /\ req[1].call.op \in {"createDocument", "importDocument"}
    /\ req[1].nFetch = 3
    /\ FailedOn("Outline API error: ", {500})

----------------------------------------------------------------------------
(* Properties of client errors in OutlineAPI._request (SpecRequest) *)

\* the 4xx statuses other than 429
ClientStatuses == {st \in Statuses : st >= 400 /\ st < 500 /\ st # 429}

\* C32: a fetch of _request that is answered with a 4xx status other than 429
\* is the last of the call, whatever the retry budget, and the call fails with
\* that status: no client error is followed by another attempt.
C32_ClientErrorsAreNotRetried ==
    \A r \in Reqs :
        LET q == req[r]
        IN  (q.stage = "raw" /\ q.statuses \cap ClientStatuses # {}) =>
                /\ q.pc = "done"
                /\ q.last.end = "throw"
                /\ q.last.status \in ClientStatuses
                /\ q.statuses \subseteq ClientStatuses => q.nFetch = 1

\* the same of 401, 403 and 404, which the catch block leaves alone
C32_AuthAndNotFoundAreNotRetried ==
    \A r \in Reqs :
        LET q == req[r]
        IN  (q.stage = "raw" /\ q.statuses \cap {401, 403, 404} # {}) =>
                /\ q.pc = "done"
                /\ q.last.end = "throw"
                /\ q.last.status \in {401, 403, 404}
                /\ q.statuses \subseteq {401, 403, 404} => q.nFetch = 1

\* a call with a budget of retries was answered 400 and is about to fetch again
C32_Retried400 ==
    /\ req[1].stage = "raw"
    /\ req[1].statuses = {400}
    /\ req[1].nFetch = 1
    /\ req[1].retry > 0
    /\ req[1].pc = "fetch"

----------------------------------------------------------------------------
(* Properties of the end of getOrCreateCollection (SpecResolve) *)

\* the calls of one invocation are bounded: at most MAX_RETRIES + 1
\* getCollection calls and at most MAX_RETRIES + 1 createCollection calls
C33_CallsAreBounded ==
    \A r \in Reqs :
        /\ req[r].inv.gets <= MAX_RETRIES + 1
        /\ req[r].inv.creates <= MAX_RETRIES + 1

\* C33: one invocation of getOrCreateCollection calls api.getCollection at most
\* MAX_RETRIES + 1 times and api.createCollection at most MAX_RETRIES + 1 times,
\* and it ends by throwing an error or by returning a collection id, never an
\* undefined one.
C33_EndsWithAnIdOrAnError ==
    /\ C33_CallsAreBounded
    /\ \A r \in Reqs :
          LET q == req[r]
          IN  q.pc = "done" =>
                 \/ q.last.end = "throw"
                 \/ q.last.end = "return" /\ q.collectionId # ""

\* an invocation has returned no id, after a creation that was answered 2xx with
\* a record that has no id, and has stored it
C33_ReturnedUndefined ==
    /\ req[1].pc = "done"
    /\ req[1].last.end = "return"
    /\ req[1].collectionId = ""
    /\ req[1].inv.creates = 1
    /\ req[1].inv.writes # <<>>

----------------------------------------------------------------------------
(* Properties of the isProcessing guard (SpecPage) *)

\* the invocations of handleClick that wait for the export, its text or the
\* answer of the background
InFlight == {c \in Clicks : page.run[c] \in {"fetch", "text", "message"}}

\* C34: at any time at most one export started by handleClick is in flight on a
\* page, whatever the order of the clicks, the answers and the timers.
C34_OneExportInFlight == Cardinality(InFlight) <= 1

\* the same of the sheet pages, where only the end of handleClick ends
\* isProcessing
C34_OneSheetExportInFlight == page.script = "spreadsheet" => Cardinality(InFlight) <= 1

\* on a document page the first export waits for its answer and a second one,
\* started after the 60-second timer, waits for its fetch
C34_TwoInFlight ==
    /\ page.script = "content"
    /\ page.run[1] = "message"
    /\ page.run[2] = "fetch"
    /\ page.isProcessing

----------------------------------------------------------------------------
(* Properties of the end of OutlineAPI._request (SpecRequest) *)

\* C35: for every retry budget n >= 0 and every sequence of fetch outcomes a
\* call of _request makes at least one and at most n + 1 fetches, and it ends
\* only by returning the parsed body of a 2xx answer or by throwing: the loop is
\* never left with nothing returned.
C35_RequestReturnsOrThrows ==
    \A r \in Reqs :
        LET q == req[r]
        IN  q.stage = "raw" =>
                /\ q.nFetch <= q.retry + 1
                /\ Len(q.classes) = q.nFetch
                /\ q.pc = "done" =>
                      /\ q.nFetch >= 1
                      /\ q.last.end \in {"return", "throw"}
                      /\ q.last.end = "return" <=> q.classes[q.nFetch] = "ok"
                      /\ q.last.end = "throw" => q.last.err # NoErr

\* a call with the largest budget has thrown after a fetch more than its budget,
\* each answered 500
C35_Witness ==
    /\ req[1].stage = "raw"
    /\ req[1].pc = "done"
    /\ req[1].retry = MaxBudget
    /\ req[1].nFetch = MaxBudget + 1
    /\ req[1].statuses = {500}
    /\ req[1].last.end = "throw"

----------------------------------------------------------------------------
(* Properties of configuration loads that meet a change (SpecSession) *)

\* C36: whenever a configuration is cached and no change notification is still
\* to be delivered, the cached values are the values now in the synced store,
\* normalized: no load that read the store before a change installs what it
\* read after the notification of the change has emptied the cache.
C36_CacheMatchesStore ==
    (cachedConfig.set /\ ~changePending) => cachedConfig = LoadedConfig(syncStore)

\* the same as long as the configuration has not been changed
C36_CacheMatchesUnchangedStore ==
    (cachedConfig.set /\ changes = 0) => cachedConfig = LoadedConfig(syncStore)

\* after the notification of a change the cache holds the values of before the
\* change, installed by a load that was waiting when the change was made
C36_StaleCache ==
    /\ changes = 1
    /\ ~changePending
    /\ cachedConfig.set
    /\ cachedConfig # LoadedConfig(syncStore)
    /\ req[1].epoch = 0

----------------------------------------------------------------------------
(* Properties of collection ids that meet a change (SpecSession) *)

\* C37: once the notification of a change has removed the stored collection
\* ids, a collection id is written to local storage only by a request that
\* works with the configuration now in the synced store: no request that was in
\* flight writes back an id it resolved under the configuration of before.
C37_NoIdOfAnOldConfiguration ==
    [][\A k \in Keys :
          (localStore'[k] # localStore[k] /\ localStore'[k] # "" /\ ~changePending) =>
              req'[1].cfg = LoadedConfig(syncStore)]_vars

\* the same as long as the configuration has not been changed
C37_IdsOfTheOnlyConfiguration ==
    [][\A k \in Keys :
          (localStore'[k] # localStore[k] /\ localStore'[k] # "" /\ changes = 0) =>
              req'[1].cfg = LoadedConfig(syncStore)]_vars

\* the notification of the change was delivered, every request has finished, and
\* local storage holds an id that a request received before the change created
C37_StaleId ==
    /\ changes = 1
    /\ ~changePending
    /\ req[1].pc = "done"
    /\ req[1].epoch = 0
    /\ req[1].cfg # LoadedConfig(syncStore)
    /\ nextColl = 1
    /\ req[1].collectionId = CollIds[1]
    /\ localStore[req[1].key] = CollIds[1]

----------------------------------------------------------------------------
(* Properties of what getOrCreateCollection stores (SpecResolve) *)

\* the ids the remote gives to the collections it creates
CreatedIds == {CollIds[i] : i \in 1..Len(CollIds)}

\* an invocation that has failed has left local storage as it was: with no id
\* of a collection created meanwhile, and with the stored id it read in place
C38_FailureKeepsTheStoredId ==
    \A r \in Reqs :
        LET q == req[r]
        IN  (q.pc = "done" /\ q.last.end = "throw") =>
                /\ \A k \in Keys : localStore[k] \notin CreatedIds
                /\ q.inv.stored # "" => localStore[q.key] = q.inv.stored

\* a value is stored only under the key of the invocation, and it is the id that
\* the createCollection call of the invocation has just returned
C38_OnlyCreatedIdsAreStored ==
    [][\A k \in Keys :
          localStore'[k] # localStore[k] =>
              /\ k = req[1].key
              /\ req[1].stage = "create"
              /\ req[1].pc = "fetch"
              /\ nextColl' = nextColl + 1
              /\ localStore'[k] = CollIds[nextColl']
              /\ req'[1].collectionId = CollIds[nextColl']]_vars

\* C38: local storage under a collection key is written only with an id that a
\* successful createCollection call of the same invocation returned, and an
\* invocation of getOrCreateCollection that fails leaves the value under the
\* key unchanged: a stale id stays in place.
C38_StoresOnlyWhatItCreated ==
    []C38_FailureKeepsTheStoredId /\ C38_OnlyCreatedIdsAreStored

\* the verification of the stored id was answered 404, every creation failed,
\* the invocation has thrown and the stored id is still there
C38_Witness ==
    /\ req[1].pc = "done"
    /\ req[1].last.end = "throw"
    /\ req[1].inv.stored = OldColl
    /\ req[1].inv.verify.status = 404
    /\ req[1].inv.creates = MAX_RETRIES + 1
    /\ localStore[req[1].key] = OldColl

----------------------------------------------------------------------------
(* Properties of the documents one request creates (Spec) *)

\* C39: one saveGoogleDoc or importGoogleSheet request creates at most one
\* document in the remote service, whatever the remote answers and however
\* often the client retries the call.
C39_AtMostOneDocument == nextDoc <= 1

\* the same of a request whose every fetch was answered 2xx with a complete body
C39_AtMostOneDocumentUnretried == req[1].remoteOk => nextDoc <= 1

\* a saveGoogleDoc request has succeeded with the second document it created:
\* the first creation was carried out and answered 500
C39_TwoDocuments ==
    /\ req[1].msg.action = "saveGoogleDoc"
    /\ req[1].pc = "done"
    /\ req[1].resp[1].success
    /\ nextDoc = 2
    /\ req[1].docId = DocIds[2]
    /\ DocIds[1] \in DOMAIN docs

====
